---- MODULE Spec2Model ----
(***************************************************************************)
(* TripMate: the session memory (merge and gap-filling), the refresh       *)
(* decision and the parameter-keyed result cache of TripMateAgent.         *)
(*                                                                         *)
(* Python values are modelled as one-field records whose field name is the *)
(* Python type: None, Str(s), Num(n), List(q).  Two values of different    *)
(* types are unequal, as in Python.                                        *)
(***************************************************************************)
EXTENDS Integers, Sequences, FiniteSets, TLC

VARIABLES
    memory,     \* self.memory: dict of the travel facts
    now,        \* the wall clock's day (datetime.now()), a day of year 2025
    today,      \* "today" as read by the last gap-filling
    step,       \* the last memory operation performed
    before,     \* the memory the last operation started from
    new_info,   \* the patch handed to the last merge
    merges,     \* number of patches merged so far
    seen,       \* per list field: the non-empty elements of all patches merged so far
    extracted,  \* per scalar field: the last non-null value of a run of merges
    cache,      \* self.cache: per search type, cache key -> entry
    is_first_interaction,   \* self.is_first_interaction
    pc,         \* where plan_trip stands: "idle" between turns
    turns,      \* number of turns started
    user_prompt,        \* plan_trip's argument
    previous_memory,    \* plan_trip's copy of the memory at the start of the turn
    force_refresh,      \* plan_trip's local: the prompt asks for fresh results
    dates_changed,      \* plan_trip's local
    locations_changed,  \* plan_trip's local
    search_results,     \* the evidence bundle's search entries (hotels, flights)
    search_log,         \* per search type: how this turn's search was carried out
    reply,              \* what the last turn returned; "none" while a turn runs
    turn_log,           \* what the language model gave in the turn and how far the turn got
    refresh_log,        \* per search type: the cache entry a failed forced call left in place
    fingerprinted,      \* the two parameter dicts last given to _generate_cache_key, with the keys
    asked,              \* the last call of a text helper: its name, argument and result
    agents,             \* the TripMateAgent instances: the dicts they refer to, their flag
    heap,               \* the dict objects: reference -> contents as last written back
    current,            \* the instance whose turn runs: memory, cache and
                        \* is_first_interaction above are its dicts and its flag
    mappings,           \* the cache dicts of the service classes and their callers:
                        \* reference -> contents
    services,           \* the FlightService and HotelService instances
    main_pc,            \* where main stands, from its await of start_ws_server on
    conn                \* the websocket connection that handle_client serves

memoryVars == <<step, before, new_info, merges, seen, extracted, fingerprinted, asked>>

turnVars ==
    <<cache, is_first_interaction, pc, turns, user_prompt, previous_memory, force_refresh,
      dates_changed, locations_changed, search_results, search_log, reply, turn_log,
      refresh_log>>

sessionVars == <<agents, heap, current>>

moduleVars == <<mappings, services, main_pc, conn>>

vars == <<memory, now, today, memoryVars, turnVars, sessionVars, moduleVars>>

(***************************************************************************)
(* Python values                                                           *)
(***************************************************************************)
None == [none |-> TRUE]
Str(s) == [str |-> s]
Num(n) == [int |-> n]
List(q) == [list |-> q]

IsStr(v) == DOMAIN v = {"str"}
IsNum(v) == DOMAIN v = {"int"}
IsList(v) == DOMAIN v = {"list"}

\* bool(v)
Truthy(v) ==
    CASE v = None -> FALSE
      [] IsStr(v) -> v.str # ""
      [] IsNum(v) -> v.int # 0
      [] IsList(v) -> v.list # << >>

\* d.get(key)
Get(d, key) == IF key \in DOMAIN d THEN d[key] ELSE None

Range(q) == {q[i] : i \in 1..Len(q)}

NoDuplicates(q) == \A i, j \in 1..Len(q) : q[i] = q[j] => i = j

IsPrefix(p, q) == Len(p) <= Len(q) /\ SubSeq(q, 1, Len(p)) = p

ScalarFields ==
    {"origin", "destination", "check_in_date", "check_out_date", "budget",
     "hotel_preference", "num_adults"}

ListFields == {"transit_cities", "transportation"}

MemoryFields == ScalarFields \cup ListFields

\* TripMateAgent.__init__: self.memory
InitialMemory ==
    [origin |-> None, destination |-> None, transit_cities |-> List(<< >>),
     check_in_date |-> None, check_out_date |-> None, budget |-> None,
     hotel_preference |-> None, num_adults |-> Num(1),
     transportation |-> List(<< >>)]

(***************************************************************************)
(* Dates: datetime values are days of the year 2025; strftime and strptime *)
(* convert between a day and its '%Y-%m-%d' text.                          *)
(***************************************************************************)
DaysBeforeMonth == <<0, 31, 59, 90, 120, 151, 181, 212, 243, 273, 304, 334, 365>>

Calendar == 1..365

MonthOf(d) == CHOOSE m \in 1..12 : DaysBeforeMonth[m] < d /\ d <= DaysBeforeMonth[m + 1]

DayOf(d) == d - DaysBeforeMonth[MonthOf(d)]

Pad2(n) == IF n < 10 THEN "0" \o ToString(n) ELSE ToString(n)

\* datetime.strftime('%Y-%m-%d')
strftime(d) == "2025-" \o Pad2(MonthOf(d)) \o "-" \o Pad2(DayOf(d))

\* the same date written without zero padding, which strptime accepts too
Unpadded(d) == "2025-" \o ToString(MonthOf(d)) \o "-" \o ToString(DayOf(d))

\* the texts strptime reads as day d
DateTexts == [d \in Calendar |-> {strftime(d), Unpadded(d)}]

\* datetime.strptime(text, '%Y-%m-%d') succeeds
Parses(v) == IsStr(v) /\ \E d \in Calendar : v.str \in DateTexts[d]

\* datetime.strptime(text, '%Y-%m-%d')
strptime(v) == CHOOSE d \in Calendar : v.str \in DateTexts[d]

(***************************************************************************)
(* Memory merge: TripMateAgent._update_memory (the same code as            *)
(* TravelInfoExtractor.update_memory)                                      *)
(***************************************************************************)
\* mutant: the test without "value is not None"
OverridesWithNull(mem, info, key) ==
    Get(mem, key) = None \/ info[key] # Get(mem, key)

\* mutant: the test without "or value != self.memory.get(key)"
OverridesOnlyUnknown(mem, info, key) ==
    info[key] # None /\ Get(mem, key) = None

\* the test that guards "self.memory[key] = value"
Overrides(mem, info, key) ==
    info[key] # None /\ (Get(mem, key) = None \/ info[key] # Get(mem, key))

\* the loop over new_info.items()
OverwriteLoop(mem, info) ==
    [key \in DOMAIN mem \cup {k \in DOMAIN info : Overrides(mem, info, k)} |->
        IF key \in DOMAIN info /\ Overrides(mem, info, key)
        THEN info[key]
        ELSE mem[key]]

\* "for city in ...: if city and city not in memory[key]: memory[key].append(city)"
RECURSIVE AppendMissing(_, _)
AppendMissing(cur, items) ==
    IF items = << >>
    THEN cur
    ELSE AppendMissing(
             IF Head(items) # "" /\ Head(items) \notin Range(cur)
             THEN Append(cur, Head(items))
             ELSE cur,
             Tail(items))

\* the "special handling" of one list field.  When it runs, the loop above has
\* already made memory[key] equal to the patch's list, so memory[key] is a list.
ExtendList(mem, info, key) ==
    IF Truthy(Get(info, key)) /\ IsList(info[key])
    THEN [mem EXCEPT ![key] = List(AppendMissing(mem[key].list, info[key].list))]
    ELSE mem

update_memory(mem, info) ==
    ExtendList(ExtendList(OverwriteLoop(mem, info), info, "transit_cities"),
               info, "transportation")

(***************************************************************************)
(* Gap-filling: TripMateAgent._make_reasonable_assumptions.  The result    *)
(* says whether strptime raised and gives the memory left behind.          *)
(***************************************************************************)
\* mutant: the check-in rule testing "is None" instead of emptiness
AssumeCheckInOnNull(mem, day) ==
    IF Truthy(mem["destination"]) /\ mem["check_in_date"] = None
    THEN [mem EXCEPT !["check_in_date"] = Str(strftime(day + 14))]
    ELSE mem

AssumeCheckIn(mem, day) ==
    IF Truthy(mem["destination"]) /\ ~Truthy(mem["check_in_date"])
    THEN [mem EXCEPT !["check_in_date"] = Str(strftime(day + 14))]
    ELSE mem

NeedsCheckOut(mem) == Truthy(mem["check_in_date"]) /\ ~Truthy(mem["check_out_date"])

\* mutant: the stay is counted from the check-in's month day only (6 days)
AssumeCheckOutShort(mem) ==
    IF NeedsCheckOut(mem)
    THEN [mem EXCEPT !["check_out_date"] = Str(strftime(strptime(mem["check_in_date"]) + 6))]
    ELSE mem

AssumeCheckOut(mem) ==
    IF NeedsCheckOut(mem)
    THEN [mem EXCEPT !["check_out_date"] = Str(strftime(strptime(mem["check_in_date"]) + 7))]
    ELSE mem

\* mutant: the rule without "and not self.memory['hotel_preference']"
AssumeHotelAlways(mem) ==
    IF Truthy(mem["destination"])
    THEN [mem EXCEPT !["hotel_preference"] = Str("3-star")]
    ELSE mem

AssumeHotel(mem) ==
    IF Truthy(mem["destination"]) /\ ~Truthy(mem["hotel_preference"])
    THEN [mem EXCEPT !["hotel_preference"] = Str("3-star")]
    ELSE mem

\* mutant: the rule appends "flight" instead of filling an empty list
AssumeTransportAppend(mem) ==
    IF Truthy(mem["origin"]) /\ Truthy(mem["destination"])
    THEN [mem EXCEPT !["transportation"] = List(Append(mem["transportation"].list, "flight"))]
    ELSE mem

AssumeTransport(mem) ==
    IF Truthy(mem["origin"]) /\ Truthy(mem["destination"]) /\ ~Truthy(mem["transportation"])
    THEN [mem EXCEPT !["transportation"] = List(<<"flight">>)]
    ELSE mem

\* mutant: the hotel rule placed before the check-out rule
make_reasonable_assumptions_hotel_first(mem, day) ==
    LET m1 == AssumeHotel(AssumeCheckIn(mem, day))
    IN  IF NeedsCheckOut(m1) /\ ~Parses(m1["check_in_date"])
        THEN [raised |-> TRUE, memory |-> m1]
        ELSE [raised |-> FALSE,
              memory |-> AssumeTransport(AssumeCheckOut(m1))]

make_reasonable_assumptions(mem, day) ==
    LET m1 == AssumeCheckIn(mem, day)
    IN  IF NeedsCheckOut(m1) /\ ~Parses(m1["check_in_date"])
        THEN [raised |-> TRUE, memory |-> m1]
        ELSE [raised |-> FALSE,
              memory |-> AssumeTransport(AssumeHotel(AssumeCheckOut(m1)))]

(***************************************************************************)
(* Text: str.lower() and the "in" test on strings                          *)
(***************************************************************************)
UpperCase == "ABCDEFGHIJKLMNOPQRSTUVWXYZ"

LowerCase == "abcdefghijklmnopqrstuvwxyz"

LowerChar(c) ==
    IF \E i \in 1..Len(UpperCase) : SubSeq(UpperCase, i, i) = c
    THEN LET i == CHOOSE i \in 1..Len(UpperCase) : SubSeq(UpperCase, i, i) = c
         IN  SubSeq(LowerCase, i, i)
    ELSE c

\* text.lower()
RECURSIVE Lower(_)
Lower(text) ==
    IF text = ""
    THEN ""
    ELSE LowerChar(SubSeq(text, 1, 1)) \o Lower(SubSeq(text, 2, Len(text)))

\* Lower on the city names of the model, computed once
LowerOfCity == [text \in {"Delhi", "Bali", "Goa", "Agra"} |-> Lower(text)]

\* city.lower()
lower(text) == IF text \in DOMAIN LowerOfCity THEN LowerOfCity[text] ELSE Lower(text)

\* word in text
Contains(text, word) ==
    \E i \in 1..(Len(text) - Len(word) + 1) : SubSeq(text, i, i + Len(word) - 1) = word

(***************************************************************************)
(* Airport codes and cache keys                                            *)
(***************************************************************************)
AIRPORT_CODES ==
    [delhi |-> "DEL", mumbai |-> "BOM", chennai |-> "MAA", kolkata |-> "CCU",
     bengaluru |-> "BLR", bangalore |-> "BLR", hyderabad |-> "HYD", bali |-> "DPS",
     denpasar |-> "DPS", bangkok |-> "BKK", london |-> "LHR", paris |-> "CDG",
     dubai |-> "DXB", singapore |-> "SIN", tokyo |-> "HND", sydney |-> "SYD",
     agra |-> "AGR"] @@ ("new york" :> "JFK")

\* mutant: the table looked up with the city as typed
get_airport_code_as_typed(city) ==
    IF ~Truthy(city)
    THEN None
    ELSE LET city_lower == lower(city.str)
         IN  IF city.str \in DOMAIN AIRPORT_CODES
             THEN Str(AIRPORT_CODES[city.str])
             ELSE Str(city_lower)

\* TripMateAgent.get_airport_code, for None or a string
get_airport_code(city) ==
    IF ~Truthy(city)
    THEN None
    ELSE LET city_lower == lower(city.str)
         IN  IF city_lower \in DOMAIN AIRPORT_CODES
             THEN Str(AIRPORT_CODES[city_lower])
             ELSE Str(city_lower)

\* sorted(names) of the parameter names of both searches
SortedParamNames ==
    <<"adults", "check_in_date", "check_out_date", "departure_date", "destination",
      "location", "origin", "return_date">>

\* A parameter dict is the sequence of its (name, value) items in insertion
\* order, no name twice.
Keys(params) == {params[i][1] : i \in DOMAIN params}

Lookup(params, name) == params[CHOOSE i \in DOMAIN params : params[i][1] = name][2]

\* A JSON text is the sequence of its tokens: json.dumps of a dict is the
\* sequence of its (name, value token) items, a value token being the literal
\* null, a number or a quoted string.

\* mutant: str(value) in place of the JSON token of the value
dumps_value_as_str(v) ==
    [string |-> IF v = None THEN "None" ELSE IF IsNum(v) THEN ToString(v.int) ELSE v.str]

\* json.dumps of a parameter value
dumps_value(v) ==
    IF v = None THEN [literal |-> "null"]
    ELSE IF IsNum(v) THEN [number |-> v.int]
    ELSE [string |-> v.str]

\* the items of a dict in the order of names
Items(params, names) ==
    [i \in 1..Len(names) |-> <<names[i], dumps_value(Lookup(params, names[i]))>>]

\* mutant: json.dumps without sort_keys, the items in insertion order
json_dumps_unsorted(params) == Items(params, [i \in DOMAIN params |-> params[i][1]])

\* json.dumps(params, sort_keys=True)
json_dumps(params) ==
    Items(params, SelectSeq(SortedParamNames, LAMBDA n : n \in Keys(params)))

\* hashlib.md5(text.encode()).hexdigest(): the digest is not computed; it is
\* represented by the digested text under the tag "md5", digests of different
\* texts being taken as different
md5(text) == <<"md5", text>>

\* TripMateAgent._generate_cache_key
generate_cache_key(params) == md5(json_dumps(params))

\* mutant: a dict of one entry, the earlier entries evicted
PutEvicting(d, key, entry) == [k \in {key} |-> entry]

\* dict[key] = entry
Put(d, key, entry) == [k \in DOMAIN d \cup {key} |-> IF k = key THEN entry ELSE d[k]]

Min(a, b) == IF a < b THEN a ELSE b

\* mutant: the whole list instead of its first n elements
TakeAll(items, n) == items

\* items[:n]
Take(items, n) == SubSeq(items, 1, Min(n, Len(items)))

(***************************************************************************)
(* The search adapters.  resp is what requests.get(url).json() gives:      *)
(* [kind |-> "raise"] when the call or the decoding raises, otherwise      *)
(* [kind |-> "data", data |-> the decoded object].  The result gives the   *)
(* returned list, the cache afterwards and whether the provider was called.*)
(***************************************************************************)
\* the record built of one provider property; a missing name reads "Unknown"
HotelRecord(hotel) == [name |-> IF "name" \in DOMAIN hotel THEN hotel.name ELSE "Unknown"]

HotelParams(location, check_in_date, check_out_date, adults) ==
    <<<<"location", location>>, <<"check_in_date", check_in_date>>,
      <<"check_out_date", check_out_date>>, <<"adults", adults>>>>

\* TripMateAgent.search_hotels on the cache self.cache["hotel_search"]
\* search_hotels reading the cache whatever force_refresh says
search_hotels_cache_first(hotel_cache, location, check_in_date, check_out_date, adults, force, resp, time) ==
    LET search_params == HotelParams(location, check_in_date, check_out_date, adults)
        cache_key == generate_cache_key(search_params)
    IN  IF cache_key \in DOMAIN hotel_cache
        THEN [results |-> hotel_cache[cache_key].results, cache |-> hotel_cache, called |-> FALSE]
        ELSE IF resp.kind \in {"raise", "invalid"}
        THEN [results |-> << >>, cache |-> hotel_cache, called |-> TRUE]
        ELSE IF "properties" \in DOMAIN resp.data
        THEN LET top == Take(resp.data.properties, 5)
                 hotels == [i \in 1..Len(top) |-> HotelRecord(top[i])]
             IN  [results |-> hotels,
                  cache |-> Put(hotel_cache, cache_key,
                                [parameters |-> search_params, timestamp |-> time,
                                 results |-> hotels]),
                  called |-> TRUE]
        ELSE [results |-> << >>, cache |-> hotel_cache, called |-> TRUE]

search_hotels(hotel_cache, location, check_in_date, check_out_date, adults, force, resp, time) ==
    LET search_params == HotelParams(location, check_in_date, check_out_date, adults)
        cache_key == generate_cache_key(search_params)
    IN  IF ~force /\ cache_key \in DOMAIN hotel_cache
        THEN [results |-> hotel_cache[cache_key].results, cache |-> hotel_cache, called |-> FALSE]
        ELSE IF resp.kind \in {"raise", "invalid"}
        THEN [results |-> << >>, cache |-> hotel_cache, called |-> TRUE]
        ELSE IF "properties" \in DOMAIN resp.data
        THEN LET top == Take(resp.data.properties, 5)
                 hotels == [i \in 1..Len(top) |-> HotelRecord(top[i])]
             IN  [results |-> hotels,
                  cache |-> Put(hotel_cache, cache_key,
                                [parameters |-> search_params, timestamp |-> time,
                                 results |-> hotels]),
                  called |-> TRUE]
        ELSE [results |-> << >>, cache |-> hotel_cache, called |-> TRUE]

\* the record built of one provider flight
FlightRecord(type, flight) ==
    [type |-> type, airline |-> IF "airline" \in DOMAIN flight THEN flight.airline ELSE "Unknown"]

\* data[name][:n] turned into records, when the key is there and its list not empty
FlightsOf(data, name, type, n) ==
    IF name \in DOMAIN data /\ data[name] # << >>
    THEN LET top == Take(data[name], n)
         IN  [i \in 1..Len(top) |-> FlightRecord(type, top[i])]
    ELSE << >>

FlightParams(origin_code, dest_code, departure_date, return_date, adults) ==
    <<<<"origin", origin_code>>, <<"destination", dest_code>>,
      <<"departure_date", departure_date>>, <<"return_date", return_date>>,
      <<"adults", adults>>>>

\* mutant: the except clause answers with the cached results of the parameters
search_flights_stale_on_error(flight_cache, origin, destination, departure_date, return_date, adults, force, resp, time) ==
    LET search_params == FlightParams(get_airport_code(origin), get_airport_code(destination),
                                      departure_date, return_date, adults)
        cache_key == generate_cache_key(search_params)
    IN  IF ~force /\ cache_key \in DOMAIN flight_cache
        THEN [results |-> flight_cache[cache_key].results, cache |-> flight_cache, called |-> FALSE]
        ELSE IF resp.kind \in {"raise", "invalid"}
        THEN [results |-> IF cache_key \in DOMAIN flight_cache
                          THEN flight_cache[cache_key].results ELSE << >>,
              cache |-> flight_cache, called |-> TRUE]
        ELSE LET flights == FlightsOf(resp.data, "best_flights", "Best Flight", 3)
                            \o FlightsOf(resp.data, "other_flights", "Alternative Flight", 2)
             IN  [results |-> flights,
                  cache |-> IF flights # << >>
                            THEN Put(flight_cache, cache_key,
                                     [parameters |-> search_params, timestamp |-> time,
                                      results |-> flights])
                            ELSE flight_cache,
                  called |-> TRUE]

\* TripMateAgent.search_flights on the cache self.cache["flight_search"]
\* mutant: the result cached also when the provider gave no flights
search_flights_caching_empty(flight_cache, origin, destination, departure_date, return_date, adults, force, resp, time) ==
    LET search_params == FlightParams(get_airport_code(origin), get_airport_code(destination),
                                      departure_date, return_date, adults)
        cache_key == generate_cache_key(search_params)
    IN  IF ~force /\ cache_key \in DOMAIN flight_cache
        THEN [results |-> flight_cache[cache_key].results, cache |-> flight_cache, called |-> FALSE]
        ELSE IF resp.kind \in {"raise", "invalid"}
        THEN [results |-> << >>, cache |-> flight_cache, called |-> TRUE]
        ELSE LET flights == FlightsOf(resp.data, "best_flights", "Best Flight", 3)
                            \o FlightsOf(resp.data, "other_flights", "Alternative Flight", 2)
             IN  [results |-> flights,
                  cache |-> Put(flight_cache, cache_key,
                                [parameters |-> search_params, timestamp |-> time,
                                 results |-> flights]),
                  called |-> TRUE]

search_flights(flight_cache, origin, destination, departure_date, return_date, adults, force, resp, time) ==
    LET search_params == FlightParams(get_airport_code(origin), get_airport_code(destination),
                                      departure_date, return_date, adults)
        cache_key == generate_cache_key(search_params)
    IN  IF ~force /\ cache_key \in DOMAIN flight_cache
        THEN [results |-> flight_cache[cache_key].results, cache |-> flight_cache, called |-> FALSE]
        ELSE IF resp.kind \in {"raise", "invalid"}
        THEN [results |-> << >>, cache |-> flight_cache, called |-> TRUE]
        ELSE LET flights == FlightsOf(resp.data, "best_flights", "Best Flight", 3)
                            \o FlightsOf(resp.data, "other_flights", "Alternative Flight", 2)
             IN  [results |-> flights,
                  cache |-> IF flights # << >>
                            THEN Put(flight_cache, cache_key,
                                     [parameters |-> search_params, timestamp |-> time,
                                      results |-> flights])
                            ELSE flight_cache,
                  called |-> TRUE]

(***************************************************************************)
(* Change detection                                                        *)
(***************************************************************************)
refresh_keywords ==
    <<"search again", "check again", "refresh", "update", "new search", "latest",
      "current", "fresh", "now", "today", "find me", "get me">>

\* mutant: the keywords looked for in the prompt as typed, not lower-cased
should_refresh_searches_as_typed(prompt) ==
    \E i \in 1..Len(refresh_keywords) : Contains(prompt, Lower(refresh_keywords[i]))

\* TripMateAgent._should_refresh_searches
should_refresh_searches(prompt) ==
    \E i \in 1..Len(refresh_keywords) : Contains(Lower(prompt), Lower(refresh_keywords[i]))

\* mutant: the test without the check-out date
have_dates_changed_check_in_only(old_info, new) ==
    Get(old_info, "check_in_date") # Get(new, "check_in_date")

\* TripMateAgent._have_dates_changed
have_dates_changed(old_info, new) ==
    \/ Get(old_info, "check_in_date") # Get(new, "check_in_date")
    \/ Get(old_info, "check_out_date") # Get(new, "check_out_date")

\* mutant: the number of travellers counted among the places
have_locations_changed_with_adults(old_info, new) ==
    \/ Get(old_info, "origin") # Get(new, "origin")
    \/ Get(old_info, "destination") # Get(new, "destination")
    \/ Get(old_info, "num_adults") # Get(new, "num_adults")

\* TripMateAgent._have_locations_changed
have_locations_changed(old_info, new) ==
    \/ Get(old_info, "origin") # Get(new, "origin")
    \/ Get(old_info, "destination") # Get(new, "destination")

(***************************************************************************)
(* Bounds and the values the language model may extract                    *)
(***************************************************************************)
Today == 171            \* the first day of the clock: 2025-06-20
MaxTicks == 1           \* days the clock may advance
MaxMerges == 2          \* patches merged in one session (SpecMemory)
MaxTurns == 2           \* turns of one session (Spec)

FieldValues(key) ==
    CASE key = "origin" -> {None, Str("Delhi"), Str("")}
      [] key = "destination" -> {None, Str("Bali"), Str("Goa")}
      [] key = "check_in_date" ->
            {None, Str("2025-07-01"), Str("2025-7-1"), Str("next week"), Str("")}
      [] key = "check_out_date" -> {None, Str("2025-07-10")}
      [] key = "budget" -> {None, Num(500)}
      [] key = "hotel_preference" -> {None, Str("5-star"), Str("")}
      [] key = "num_adults" -> {None, Num(2)}
      [] key = "transit_cities" ->
            {None, List(<< >>), List(<<"Agra">>), List(<<"Delhi">>),
             List(<<"Delhi", "Agra">>)}
      [] key = "transportation" -> {None, List(<<"train">>), List(<<"flight", "train">>)}

\* the key sets of the JSON objects json.loads may return: no key, any one key,
\* or origin together with destination
PatchKeySets == {{}} \cup {{k} : k \in MemoryFields} \cup {{"origin", "destination"}}

Patches ==
    UNION {{f \in [K -> UNION {FieldValues(k) : k \in K}] : \A k \in K : f[k] \in FieldValues(k)} :
           K \in PatchKeySets}

(***************************************************************************)
(* SpecMemory: the memory under any sequence of merges and gap-fillings    *)
(***************************************************************************)
NoPatch == [absent |-> TRUE]

\* the search log of a search type that has not been processed in this turn
\* (path: "search" or "reuse"; cached: the cache held the current parameter set when
\* the search began; adapter, force: the adapter was called, and with which
\* force_refresh; called: the provider was called; response: what the provider
\* call gave)
NoResponse == [kind |-> "none"]

NoSearch ==
    [path |-> "none", cached |-> FALSE, adapter |-> FALSE, force |-> FALSE, called |-> FALSE,
     response |-> NoResponse]

\* the turn log before the first turn and after a turn that answered
\* (llm: what generate_content gave; failed: the step whose exception reached
\* plan_trip's except clause; start, merged: the memory when the turn began and
\* after the merge step; kept: the memory and the cache as the steps completed
\* before the failing step left them)
NoTurn ==
    [llm |-> [kind |-> "none"], failed |-> "none", start |-> InitialMemory,
     merged |-> InitialMemory,
     kept |-> [memory |-> InitialMemory, cache |-> [hotel_search |-> << >>, flight_search |-> << >>]]]

\* no forced call has failed over a cached entry
NoRefresh == [hotels |-> << >>, flights |-> << >>]

\* no key has been computed yet
NoFingerprint == [params |-> << >>, keys |-> << >>]

\* no text helper has been called yet
NoCall == [fn |-> "none"]

\* plan_trip's locals between turns
LocalsCleared ==
    /\ user_prompt' = ""
    /\ previous_memory' = InitialMemory
    /\ force_refresh' = FALSE
    /\ dates_changed' = FALSE
    /\ locations_changed' = FALSE
    /\ search_results' = << >>
    /\ search_log' = [hotels |-> NoSearch, flights |-> NoSearch]

(***************************************************************************)
(* Instances and the objects they refer to.  self.memory and self.cache    *)
(* are references to dict objects; the heap maps a reference to the        *)
(* contents of the object.  The dicts of the current instance are the      *)
(* variables memory and cache; they are written back when another          *)
(* instance takes over.                                                    *)
(***************************************************************************)
EmptyCache == [hotel_search |-> << >>, flight_search |-> << >>]

\* the references the instances hold
Referenced(ags) == UNION {{ags[a].memory, ags[a].cache} : a \in DOMAIN ags}

\* the references in use: in the heap or held by an instance
InUse(h, ags) == DOMAIN h \cup Referenced(ags)

\* r and r + 1 are both unused
FreePair(h, ags, r) == r \notin InUse(h, ags) /\ r + 1 \notin InUse(h, ags)

\* the least reference r with r and r + 1 unused: where __init__ puts its two dicts
FreshRef(h, ags) ==
    CHOOSE r \in 1..(2 * Cardinality(InUse(h, ags)) + 1) :
        /\ FreePair(h, ags, r)
        /\ \A q \in 1..(r - 1) : ~FreePair(h, ags, q)

\* mutant: every instance refers to one cache dict, the object kept at
\* reference ref + 1 of the first instance
init_shared_cache(ref) ==
    [memory |-> ref, cache |-> 2, is_first_interaction |-> TRUE,
     left |-> [memory |-> InitialMemory, cache |-> EmptyCache, is_first_interaction |-> TRUE]]

\* TripMateAgent.__init__: the two dict displays create two new objects, at
\* ref and ref + 1 (left: the state the instance had when it last ran)
init(ref) ==
    [memory |-> ref, cache |-> ref + 1, is_first_interaction |-> TRUE,
     left |-> [memory |-> InitialMemory, cache |-> EmptyCache, is_first_interaction |-> TRUE]]

\* a dict display evaluated: a new object when the reference is new
Alloc(h, ref, value) == IF ref \in DOMAIN h THEN h ELSE h @@ (ref :> value)

\* the heap after __init__ of the instance
Construct(h, agent) == Alloc(Alloc(h, agent.memory, InitialMemory), agent.cache, EmptyCache)

\* objects no instance refers to are freed
Collect(h, ags) == [r \in DOMAIN h \cap Referenced(ags) |-> h[r]]

\* no client has connected (message: the last text received; turn: the number
\* of turns when it was received; received, errors: how many texts and how many
\* error replies so far; sent: the last reply; handled: the memory of the
\* instance that answered last)
NoConnection ==
    [state |-> "none", message |-> "", turn |-> 0, received |-> 0, errors |-> 0,
     sent |-> "none", handled |-> InitialMemory]

\* TripMateAgent.__init__: the state once the instance is constructed, as main
\* has it before it awaits start_ws_server()
Init ==
    /\ cache = [hotel_search |-> << >>, flight_search |-> << >>]
    /\ is_first_interaction = TRUE
    /\ pc = "idle"
    /\ turns = 0
    /\ user_prompt = ""
    /\ previous_memory = InitialMemory
    /\ force_refresh = FALSE
    /\ dates_changed = FALSE
    /\ locations_changed = FALSE
    /\ search_results = << >>
    /\ search_log = [hotels |-> NoSearch, flights |-> NoSearch]
    /\ reply = "none"
    /\ turn_log = NoTurn
    /\ refresh_log = NoRefresh
    /\ memory = InitialMemory
    /\ now = Today
    /\ today = Today
    /\ step = "created"
    /\ before = InitialMemory
    /\ new_info = NoPatch
    /\ merges = 0
    /\ seen = [f \in ListFields |-> {}]
    /\ extracted = [f \in ScalarFields |-> None]
    /\ fingerprinted = NoFingerprint
    /\ asked = NoCall
    /\ agents = (1 :> init(1))
    /\ heap = Construct(<< >>, init(1))
    /\ current = 1
    /\ mappings = << >>
    /\ services = << >>
    /\ main_pc = "start_ws_server"
    /\ conn = NoConnection

\* the elements a patch carries for a list field
PatchElements(info, f) ==
    IF f \in DOMAIN info /\ IsList(info[f]) THEN Range(info[f].list) \ {""} ELSE {}

\* _update_memory(new_info)
Merge(info) ==
    /\ merges < MaxMerges
    /\ memory' = update_memory(memory, info)
    /\ before' = memory
    /\ new_info' = info
    /\ step' = "merged"
    /\ merges' = merges + 1
    /\ seen' = [f \in ListFields |-> seen[f] \cup PatchElements(info, f)]
    /\ extracted' = [f \in ScalarFields |->
                        IF Get(info, f) # None THEN info[f] ELSE extracted[f]]
    /\ UNCHANGED <<now, today, fingerprinted, asked, turnVars, sessionVars, moduleVars>>

\* _make_reasonable_assumptions()
Assume ==
    LET r == make_reasonable_assumptions(memory, now)
    IN  /\ memory' = r.memory
        /\ before' = memory
        /\ today' = now
        /\ step' = IF r.raised THEN "assume_raised"
                   ELSE IF step \in {"assumed", "assumed_again"} THEN "assumed_again"
                   ELSE "assumed"
        /\ extracted' = [f \in ScalarFields |-> None]
        /\ UNCHANGED <<now, new_info, merges, seen, fingerprinted, asked, turnVars, sessionVars, moduleVars>>

\* a day passes
Tick ==
    /\ now < Today + MaxTicks
    /\ now' = now + 1
    /\ UNCHANGED <<memory, today, memoryVars, sessionVars, moduleVars, turnVars>>

NextMemory ==
    \/ \E info \in Patches : Merge(info)
    \/ Assume
    \/ Tick

SpecMemory == Init /\ [][NextMemory]_vars

(***************************************************************************)
(* Spec: the turns of one session, TripMateAgent.plan_trip                 *)
(***************************************************************************)
Prompts == {"what about hotels", "Refresh the results"}

\* the JSON objects the language model returns in a turn
TurnPatches ==
    {<< >>,
     [destination |-> Str("Bali")],
     [destination |-> Str("Goa")],
     [origin |-> Str("Delhi")],
     [origin |-> Str("Delhi"), destination |-> Str("Bali"), check_in_date |-> Str("2025-07-01")],
     [check_in_date |-> Str("next week")],
     [check_out_date |-> Str("2025-07-10")],
     [num_adults |-> Num(2)],
     [transit_cities |-> List(<<"Agra">>)],
     [transportation |-> List(<<"train">>)],
     [destination |-> Str("Goa"), num_adults |-> Str("two")]}

\* what requests.get(url) and response.json() give: requests.get raises, the
\* body is no JSON or its values have not the shape the loop expects
\* ("invalid": the extraction raises), or the decoded payload
\* what self.model.generate_content gives: it raises, its text is no JSON
\* ("garbage"), its text is JSON but no object ("not_mapping": null, a list, a
\* number), or its text is a JSON object
LlmOutcomes ==
    {[kind |-> "raise"], [kind |-> "garbage"], [kind |-> "not_mapping"]}
        \cup {[kind |-> "json", value |-> info] : info \in TurnPatches}

HotelResponses ==
    {[kind |-> "raise"],
     [kind |-> "invalid"],
     [kind |-> "data", data |-> [error |-> "no results"]],
     [kind |-> "data", data |-> [properties |-> << >>]],
     [kind |-> "data", data |-> [properties |-> <<[name |-> "H1"], [name |-> "H2"],
                                                  [address |-> "Beach Road"], [name |-> "H4"],
                                                  [name |-> "H5"], [name |-> "H6"]>>]]}

FlightResponses ==
    {[kind |-> "raise"],
     [kind |-> "invalid"],
     [kind |-> "data", data |-> [error |-> "no results"]],
     [kind |-> "data", data |-> [best_flights |-> << >>]],
     [kind |-> "data", data |-> [best_flights |-> <<[airline |-> "A1"], [airline |-> "A2"],
                                                    [airline |-> "A3"], [airline |-> "A4"]>>,
                                 other_flights |-> <<[airline |-> "B1"], [price |-> 90],
                                                     [airline |-> "B3"]>>]]}

\* _should_refresh_searches on each prompt of the model
WantsRefresh == [prompt \in Prompts |-> should_refresh_searches(prompt)]

\* d.get(key, default)
GetOr(d, key, default) == IF key \in DOMAIN d THEN d[key] ELSE default

\* the turn ends returning the failure message of plan_trip's except clause
Abort ==
    /\ reply' = "error"
    /\ pc' = "idle"
    /\ LocalsCleared

\* mutant: gap-filling run before the extraction and the merge
BeginTurnAssumeFirst(prompt, llm) ==
    /\ pc = "idle"
    /\ turns < MaxTurns
    /\ turns' = turns + 1
    /\ LET assumed == make_reasonable_assumptions(memory, now)
           merged == IF llm.kind = "json" THEN update_memory(memory, llm.value) ELSE memory
           r == [raised |-> assumed.raised,
                 memory |-> IF llm.kind = "json"
                            THEN update_memory(assumed.memory, llm.value)
                            ELSE assumed.memory]
           log == [llm |-> llm, failed |-> "none", start |-> memory, merged |-> merged,
                   kept |-> [memory |-> r.memory, cache |-> cache]]
       IN  IF llm.kind = "raise"
           THEN /\ Abort
                /\ turn_log' = [log EXCEPT !.failed = "extract", !.merged = memory,
                                           !.kept = [memory |-> memory, cache |-> cache]]
                /\ UNCHANGED <<memory, today>>
           ELSE IF r.raised
           THEN /\ Abort
                /\ turn_log' = [log EXCEPT !.failed = "assume",
                                           !.kept = [memory |-> merged, cache |-> cache]]
                /\ memory' = r.memory
                /\ today' = now
           ELSE /\ memory' = r.memory
                /\ today' = now
                /\ turn_log' = log
                /\ user_prompt' = prompt
                /\ previous_memory' = memory
                /\ force_refresh' = WantsRefresh[prompt]
                /\ dates_changed' = have_dates_changed(memory, r.memory)
                /\ locations_changed' = have_locations_changed(memory, r.memory)
                /\ search_results' = << >>
                /\ search_log' = [hotels |-> NoSearch, flights |-> NoSearch]
                /\ pc' = "hotels"
                /\ reply' = "none"
    /\ UNCHANGED <<now, memoryVars, sessionVars, moduleVars, cache, is_first_interaction, refresh_log>>

\* plan_trip up to the search stage: copy the memory, _extract_travel_info,
\* _make_reasonable_assumptions, the three refresh tests
BeginTurnWithin(limit, prompt, llm) ==
    /\ pc = "idle"
    /\ turns < limit
    /\ turns' = turns + 1
    /\ LET merged == IF llm.kind = "json" THEN update_memory(memory, llm.value) ELSE memory
           r == make_reasonable_assumptions(merged, now)
           log == [llm |-> llm, failed |-> "none", start |-> memory, merged |-> merged,
                   kept |-> [memory |-> r.memory, cache |-> cache]]
       IN  IF llm.kind = "raise"
           THEN /\ Abort
                /\ turn_log' = [log EXCEPT !.failed = "extract", !.merged = memory,
                                           !.kept = [memory |-> memory, cache |-> cache]]
                /\ UNCHANGED <<memory, today>>
           ELSE IF r.raised
           THEN /\ Abort
                /\ turn_log' = [log EXCEPT !.failed = "assume",
                                           !.kept = [memory |-> merged, cache |-> cache]]
                /\ memory' = r.memory
                /\ today' = now
           ELSE /\ memory' = r.memory
                /\ today' = now
                /\ turn_log' = log
                /\ user_prompt' = prompt
                /\ previous_memory' = memory
                /\ force_refresh' = WantsRefresh[prompt]
                /\ dates_changed' = have_dates_changed(memory, r.memory)
                /\ locations_changed' = have_locations_changed(memory, r.memory)
                /\ search_results' = << >>
                /\ search_log' = [hotels |-> NoSearch, flights |-> NoSearch]
                /\ pc' = "hotels"
                /\ reply' = "none"
    /\ UNCHANGED <<now, memoryVars, sessionVars, moduleVars, cache, is_first_interaction, refresh_log>>

\* a turn of a session of at most MaxTurns turns
BeginTurn(prompt, llm) == BeginTurnWithin(MaxTurns, prompt, llm)

\* "should_search_hotels" and "should_search_flights"
ShouldSearch(force, dates, locations, first) == force \/ dates \/ locations \/ first

\* the hotel search is processed
HotelsApplicable(mem) ==
    /\ mem["destination"] # None
    /\ Truthy(mem["destination"])
    /\ Truthy(mem["check_in_date"])
    /\ Truthy(mem["check_out_date"])

\* mutant: the reuse path's key built without the number of adults
HotelKeyWithoutAdults(mem) ==
    generate_cache_key(SubSeq(HotelParams(mem["destination"], mem["check_in_date"],
                                          mem["check_out_date"], GetOr(mem, "num_adults", Num(1))),
                              1, 3))

\* the cache key of the hotel search's current parameter set
HotelKey(mem) ==
    generate_cache_key(HotelParams(mem["destination"], mem["check_in_date"],
                                   mem["check_out_date"], GetOr(mem, "num_adults", Num(1))))

\* plan_trip's hotel block: the adapter with the prompt's flag when a search is
\* due, otherwise the cache entry of the current parameters, otherwise the
\* adapter with force_refresh True
\* the hotel block passing force_refresh=True on the search path
HotelBlockForced(mem, hotel_cache, should, force, resp, time) ==
    LET adults == GetOr(mem, "num_adults", Num(1))
        cache_key == HotelKey(mem)
    IN  IF should
        THEN search_hotels(hotel_cache, mem["destination"], mem["check_in_date"],
                           mem["check_out_date"], adults, TRUE, resp, time)
                 @@ [path |-> "search", adapter |-> TRUE, force |-> TRUE]
        ELSE IF cache_key \in DOMAIN hotel_cache
        THEN [results |-> hotel_cache[cache_key].results, cache |-> hotel_cache,
              called |-> FALSE, path |-> "reuse", adapter |-> FALSE, force |-> FALSE]
        ELSE search_hotels(hotel_cache, mem["destination"], mem["check_in_date"],
                           mem["check_out_date"], adults, TRUE, resp, time)
                 @@ [path |-> "reuse", adapter |-> TRUE, force |-> TRUE]

\* mutant: the reuse path answering with a cached stay of any number of adults
HotelBlockAnyAdults(mem, hotel_cache, should, force, resp, time) ==
    LET adults == GetOr(mem, "num_adults", Num(1))
        stay == SubSeq(HotelParams(mem["destination"], mem["check_in_date"],
                                   mem["check_out_date"], adults), 1, 3)
        same == {k \in DOMAIN hotel_cache : SubSeq(hotel_cache[k].parameters, 1, 3) = stay}
    IN  IF should
        THEN search_hotels(hotel_cache, mem["destination"], mem["check_in_date"],
                           mem["check_out_date"], adults, force, resp, time)
                 @@ [path |-> "search", adapter |-> TRUE, force |-> force]
        ELSE IF same # {}
        THEN [results |-> hotel_cache[CHOOSE k \in same : TRUE].results, cache |-> hotel_cache,
              called |-> FALSE, path |-> "reuse", adapter |-> FALSE, force |-> FALSE]
        ELSE search_hotels(hotel_cache, mem["destination"], mem["check_in_date"],
                           mem["check_out_date"], adults, TRUE, resp, time)
                 @@ [path |-> "reuse", adapter |-> TRUE, force |-> TRUE]

HotelBlock(mem, hotel_cache, should, force, resp, time) ==
    LET adults == GetOr(mem, "num_adults", Num(1))
        cache_key == HotelKey(mem)
    IN  IF should
        THEN search_hotels(hotel_cache, mem["destination"], mem["check_in_date"],
                           mem["check_out_date"], adults, force, resp, time)
                 @@ [path |-> "search", adapter |-> TRUE, force |-> force]
        ELSE IF cache_key \in DOMAIN hotel_cache
        THEN [results |-> hotel_cache[cache_key].results, cache |-> hotel_cache,
              called |-> FALSE, path |-> "reuse", adapter |-> FALSE, force |-> FALSE]
        ELSE search_hotels(hotel_cache, mem["destination"], mem["check_in_date"],
                           mem["check_out_date"], adults, TRUE, resp, time)
                 @@ [path |-> "reuse", adapter |-> TRUE, force |-> TRUE]

LogOf(r, cached, resp) ==
    [path |-> r.path, cached |-> cached, adapter |-> r.adapter, force |-> r.force,
     called |-> r.called, response |-> IF r.called THEN resp ELSE NoResponse]

\* what the refresh log holds after a search: the entry that was cached under
\* the key when a forced provider call raised or, for flights, gave no flights;
\* nothing once the search type's cache has been written
RefreshLogOf(t, logged, type_cache, key, r, resp) ==
    IF /\ r.called
       /\ r.force
       /\ key \in DOMAIN type_cache
       /\ r.results = << >>
       /\ resp.kind \in {"raise", "invalid"} \/ t = "flights"
    THEN [key |-> key, results |-> type_cache[key].results,
          how |-> IF resp.kind = "data" THEN "empty" ELSE "raised"]
    ELSE IF r.cache # type_cache THEN << >> ELSE logged

HotelStage(resp) ==
    /\ pc = "hotels"
    /\ pc' = "flights"
    /\ IF HotelsApplicable(memory)
       THEN LET r == HotelBlock(memory, cache["hotel_search"],
                                ShouldSearch(force_refresh, dates_changed, locations_changed,
                                             is_first_interaction),
                                force_refresh, resp, now)
            IN  /\ cache' = [cache EXCEPT !["hotel_search"] = r.cache]
                /\ search_results' = Put(search_results, "hotels", r.results)
                /\ search_log' = [search_log EXCEPT !["hotels"] =
                                     LogOf(r, HotelKey(memory) \in DOMAIN cache["hotel_search"], resp)]
                /\ refresh_log' = [refresh_log EXCEPT !["hotels"] =
                                       RefreshLogOf("hotels", @, cache["hotel_search"],
                                                    HotelKey(memory), r, resp)]
       ELSE UNCHANGED <<cache, search_results, search_log, refresh_log>>
    /\ UNCHANGED <<memory, now, today, memoryVars, sessionVars, moduleVars, is_first_interaction, turns,
                   user_prompt, previous_memory, force_refresh, dates_changed,
                   locations_changed, reply, turn_log>>

\* mutant: the flight leaves the origin, whatever the transit cities are
FlightOriginIgnoringTransit(mem) ==
    IF Truthy(mem["origin"]) THEN mem["origin"] ELSE None

\* "flight_origin": the first transit city, else the origin, else None
FlightOrigin(mem) ==
    IF Truthy(mem["transit_cities"])
    THEN Str(mem["transit_cities"].list[1])
    ELSE IF Truthy(mem["origin"]) THEN mem["origin"] ELSE None

\* mutant: the flight search processed whatever the transportation modes are
FlightsApplicableAnyMode(mem) ==
    /\ mem["destination"] # None
    /\ Truthy(mem["check_in_date"])
    /\ Truthy(FlightOrigin(mem))
    /\ Truthy(mem["destination"])

\* the flight search is processed
FlightsApplicable(mem) ==
    /\ mem["destination"] # None
    /\ "flight" \in Range(mem["transportation"].list) \/ ~Truthy(mem["transportation"])
    /\ Truthy(mem["check_in_date"])
    /\ Truthy(FlightOrigin(mem))
    /\ Truthy(mem["destination"])

\* the cache key of the flight search's current parameter set
FlightKey(mem) ==
    generate_cache_key(
        FlightParams(get_airport_code(FlightOrigin(mem)), get_airport_code(mem["destination"]),
                     mem["check_in_date"], Get(mem, "check_out_date"),
                     GetOr(mem, "num_adults", Num(1))))

\* plan_trip's flight block
\* the flight block without the fallback search of the reuse path
FlightBlockNoFallback(mem, flight_cache, should, force, resp, time) ==
    LET adults == GetOr(mem, "num_adults", Num(1))
        flight_origin == FlightOrigin(mem)
        cache_key == FlightKey(mem)
    IN  IF should
        THEN search_flights(flight_cache, flight_origin, mem["destination"],
                            mem["check_in_date"], Get(mem, "check_out_date"), adults,
                            force, resp, time)
                 @@ [path |-> "search", adapter |-> TRUE, force |-> force]
        ELSE IF cache_key \in DOMAIN flight_cache
        THEN [results |-> flight_cache[cache_key].results, cache |-> flight_cache,
              called |-> FALSE, path |-> "reuse", adapter |-> FALSE, force |-> FALSE]
        ELSE [results |-> << >>, cache |-> flight_cache,
              called |-> FALSE, path |-> "reuse", adapter |-> FALSE, force |-> FALSE]

\* mutant: the reuse path serving an entry only on the day it was written
FlightBlockExpiring(mem, flight_cache, should, force, resp, time) ==
    LET adults == GetOr(mem, "num_adults", Num(1))
        flight_origin == FlightOrigin(mem)
        cache_key == FlightKey(mem)
    IN  IF should
        THEN search_flights(flight_cache, flight_origin, mem["destination"],
                            mem["check_in_date"], Get(mem, "check_out_date"), adults,
                            force, resp, time)
                 @@ [path |-> "search", adapter |-> TRUE, force |-> force]
        ELSE IF cache_key \in DOMAIN flight_cache /\ flight_cache[cache_key].timestamp = time
        THEN [results |-> flight_cache[cache_key].results, cache |-> flight_cache,
              called |-> FALSE, path |-> "reuse", adapter |-> FALSE, force |-> FALSE]
        ELSE search_flights(flight_cache, flight_origin, mem["destination"],
                            mem["check_in_date"], Get(mem, "check_out_date"), adults,
                            TRUE, resp, time)
                 @@ [path |-> "reuse", adapter |-> TRUE, force |-> TRUE]

FlightBlock(mem, flight_cache, should, force, resp, time) ==
    LET adults == GetOr(mem, "num_adults", Num(1))
        flight_origin == FlightOrigin(mem)
        cache_key == FlightKey(mem)
    IN  IF should
        THEN search_flights(flight_cache, flight_origin, mem["destination"],
                            mem["check_in_date"], Get(mem, "check_out_date"), adults,
                            force, resp, time)
                 @@ [path |-> "search", adapter |-> TRUE, force |-> force]
        ELSE IF cache_key \in DOMAIN flight_cache
        THEN [results |-> flight_cache[cache_key].results, cache |-> flight_cache,
              called |-> FALSE, path |-> "reuse", adapter |-> FALSE, force |-> FALSE]
        ELSE search_flights(flight_cache, flight_origin, mem["destination"],
                            mem["check_in_date"], Get(mem, "check_out_date"), adults,
                            TRUE, resp, time)
                 @@ [path |-> "reuse", adapter |-> TRUE, force |-> TRUE]

FlightStage(resp) ==
    /\ pc = "flights"
    /\ pc' = "respond"
    /\ IF FlightsApplicable(memory)
       THEN LET r == FlightBlock(memory, cache["flight_search"],
                                 ShouldSearch(force_refresh, dates_changed, locations_changed,
                                              is_first_interaction),
                                 force_refresh, resp, now)
            IN  /\ cache' = [cache EXCEPT !["flight_search"] = r.cache]
                /\ search_results' = Put(search_results, "flights", r.results)
                /\ search_log' = [search_log EXCEPT !["flights"] =
                                     LogOf(r, FlightKey(memory) \in DOMAIN cache["flight_search"], resp)]
                /\ refresh_log' = [refresh_log EXCEPT !["flights"] =
                                       RefreshLogOf("flights", @, cache["flight_search"],
                                                    FlightKey(memory), r, resp)]
       ELSE UNCHANGED <<cache, search_results, search_log, refresh_log>>
    /\ UNCHANGED <<memory, now, today, memoryVars, sessionVars, moduleVars, is_first_interaction, turns,
                   user_prompt, previous_memory, force_refresh, dates_changed,
                   locations_changed, reply, turn_log>>

\* mutant: the except clause raises again instead of returning the message
RespondRaising(answered) ==
    /\ pc = "respond"
    /\ is_first_interaction' = FALSE
    /\ reply' = IF answered THEN "text" ELSE reply
    /\ turn_log' = IF answered THEN NoTurn
                   ELSE [NoTurn EXCEPT !.failed = "respond",
                                       !.kept = [memory |-> memory, cache |-> cache]]
    /\ pc' = IF answered THEN "idle" ELSE "raised"
    /\ LocalsCleared
    /\ UNCHANGED <<memory, now, today, memoryVars, sessionVars, moduleVars, cache, turns, refresh_log>>

\* mutant: the flag cleared only by a turn that searched
RespondAfterSearchOnly(answered) ==
    /\ pc = "respond"
    /\ is_first_interaction' = IF search_results = << >> THEN is_first_interaction ELSE FALSE
    /\ reply' = IF answered THEN "text" ELSE "error"
    /\ turn_log' = IF answered THEN NoTurn
                   ELSE [NoTurn EXCEPT !.failed = "respond",
                                       !.kept = [memory |-> memory, cache |-> cache]]
    /\ pc' = "idle"
    /\ LocalsCleared
    /\ UNCHANGED <<memory, now, today, memoryVars, sessionVars, moduleVars, cache, turns, refresh_log>>

\* the end of plan_trip: the first-interaction flag is cleared, then
\* self.chat.send_message answers or raises
Respond(answered) ==
    /\ pc = "respond"
    /\ is_first_interaction' = FALSE
    /\ reply' = IF answered THEN "text" ELSE "error"
    /\ turn_log' = IF answered THEN NoTurn
                   ELSE [NoTurn EXCEPT !.failed = "respond",
                                       !.kept = [memory |-> memory, cache |-> cache]]
    /\ pc' = "idle"
    /\ LocalsCleared
    /\ UNCHANGED <<memory, now, today, memoryVars, sessionVars, moduleVars, cache, turns, refresh_log>>

Next ==
    \/ \E prompt \in Prompts, llm \in LlmOutcomes : BeginTurn(prompt, llm)
    \/ \E resp \in HotelResponses : HotelStage(resp)
    \/ \E resp \in FlightResponses : FlightStage(resp)
    \/ \E answered \in BOOLEAN : Respond(answered)

Spec == Init /\ [][Next]_vars

\* one hotel response of each kind: an exception, a payload that is no JSON,
\* a result with properties
LiveHotelResponses ==
    {r \in HotelResponses :
        r.kind = "data" => "properties" \in DOMAIN r.data /\ r.data.properties # << >>}

\* one flight response of each kind: an exception, a payload that is no JSON,
\* a result with flights
LiveFlightResponses ==
    {r \in FlightResponses :
        r.kind = "data" => "best_flights" \in DOMAIN r.data /\ r.data.best_flights # << >>}

\* a turn that has begun goes on: plan_trip runs its steps one after the other
\* and every call it makes returns or raises
TurnStep ==
    \/ \E resp \in LiveHotelResponses : HotelStage(resp)
    \/ \E resp \in LiveFlightResponses : FlightStage(resp)
    \/ \E answered \in BOOLEAN : Respond(answered)

\* one language-model outcome of each kind: no response, no JSON, no JSON
\* object, a patch that starts both searches, a patch on which gap-filling raises
LiveOutcomes ==
    {[kind |-> "raise"], [kind |-> "garbage"], [kind |-> "not_mapping"],
     [kind |-> "json",
      value |-> [origin |-> Str("Delhi"), destination |-> Str("Bali"),
                 check_in_date |-> Str("2025-07-01")]],
     [kind |-> "json", value |-> [check_in_date |-> Str("next week")]]}

NextLive ==
    \/ \E prompt \in Prompts, llm \in LiveOutcomes : BeginTurn(prompt, llm)
    \/ TurnStep

SpecLive == Init /\ [][NextLive]_vars /\ WF_vars(TurnStep)

(***************************************************************************)
(* Claims about the merge                                                  *)
(***************************************************************************)
Merged == step = "merged"

\* C1: after every merge, transit_cities and transportation contain every
\* non-empty element of every patch merged so far, and hold no element twice.
C1_ListsAccumulate ==
    Merged => \A f \in ListFields :
                 /\ seen[f] \subseteq Range(memory[f].list)
                 /\ NoDuplicates(memory[f].list)

\* the list a patch carries for a field, empty when it carries none
PatchList(info, f) == IF f \in DOMAIN info /\ IsList(info[f]) THEN info[f].list ELSE << >>

\* C2: a merge keeps the list it started from as a prefix of the result and
\* appends exactly the patch's elements that were missing, in patch order.
C2_ListsOnlyAppend ==
    Merged => \A f \in ListFields :
                 /\ IsPrefix(before[f].list, memory[f].list)
                 /\ memory[f].list = AppendMissing(before[f].list, PatchList(new_info, f))

\* C3: a field that is null in the patch, or absent from it, keeps its value.
C3_NullKeepsField ==
    Merged => \A f \in MemoryFields : Get(new_info, f) = None => memory[f] = before[f]

\* C3 witness: a merge whose patch carries an explicit null for a known origin
\* while it changes the destination.
C3_Witness ==
    /\ Merged
    /\ DOMAIN new_info = {"origin", "destination"}
    /\ new_info["origin"] = None
    /\ before["origin"] = Str("Delhi")
    /\ memory["origin"] = Str("Delhi")
    /\ memory["destination"] # before["destination"]

\* C4: after a merge a scalar field holds the patch's value when that is not
\* null and its previous value otherwise; over a run of merges it holds the last
\* non-null value extracted for it.
C4_ScalarLastNonNull ==
    Merged => \A f \in ScalarFields :
                 /\ Get(new_info, f) # None => memory[f] = new_info[f]
                 /\ Get(new_info, f) = None => memory[f] = before[f]
                 /\ extracted[f] # None => memory[f] = extracted[f]

\* C4 witness: a second patch corrects the destination extracted by the first.
C4_Witness ==
    /\ Merged
    /\ merges = 2
    /\ before["destination"] = Str("Bali")
    /\ new_info = [destination |-> Str("Goa")]
    /\ memory["destination"] = Str("Goa")

(***************************************************************************)
(* Claims about gap-filling                                                *)
(***************************************************************************)
Assumed == step \in {"assumed", "assumed_again"}

AssumeRaised == step = "assume_raised"

\* C5: gap-filling applied a second time changes no field.
C5_AssumeIdempotent == step = "assumed_again" => memory = before

\* C5 witness: a second gap-filling after one that filled the check-in date,
\* the check-out date, the hotel preference and the transportation.
C5_Witness ==
    /\ step = "assumed_again"
    /\ extracted = [f \in ScalarFields |-> None]
    /\ memory["check_in_date"] = Str(strftime(Today + 14))
    /\ memory["check_out_date"] = Str(strftime(Today + 21))
    /\ today = Today + 1
    /\ memory["hotel_preference"] = Str("3-star")
    /\ memory["transportation"] = List(<<"flight">>)

NeverAssumed == {"origin", "destination", "budget", "num_adults", "transit_cities"}

C7_RulesOnNull ==
    (Assumed \/ AssumeRaised) =>
        /\ memory["check_in_date"] =
              IF before["destination"] # None /\ before["check_in_date"] = None
              THEN Str(strftime(today + 14))
              ELSE before["check_in_date"]
        /\ IF memory["check_in_date"] # None /\ before["check_out_date"] = None
           THEN /\ Parses(memory["check_in_date"])
                /\ memory["check_out_date"] = Str(strftime(strptime(memory["check_in_date"]) + 7))
           ELSE memory["check_out_date"] = before["check_out_date"]
        /\ memory["hotel_preference"] =
              IF before["destination"] # None /\ before["hotel_preference"] = None
              THEN Str("3-star")
              ELSE before["hotel_preference"]
        /\ memory["transportation"] =
              IF /\ before["origin"] # None
                 /\ before["destination"] # None
                 /\ before["transportation"] = List(<< >>)
              THEN List(<<"flight">>)
              ELSE before["transportation"]
        /\ \A f \in NeverAssumed : memory[f] = before[f]

\* C7 as amended: the four rules with "known" read as non-empty (not null, not
\* "") and "null" as empty; the check-out rule needs a check-in that parses as
\* a %Y-%m-%d date, and with a known check-in that does not parse and an empty
\* check-out gap-filling raises and leaves the memory as it was.
C7_RulesOnEmpty ==
    /\ Assumed =>
        /\ memory["check_in_date"] =
              IF Truthy(before["destination"]) /\ ~Truthy(before["check_in_date"])
              THEN Str(strftime(today + 14))
              ELSE before["check_in_date"]
        /\ IF Truthy(memory["check_in_date"]) /\ ~Truthy(before["check_out_date"])
           THEN /\ Parses(memory["check_in_date"])
                /\ memory["check_out_date"] = Str(strftime(strptime(memory["check_in_date"]) + 7))
           ELSE memory["check_out_date"] = before["check_out_date"]
        /\ memory["hotel_preference"] =
              IF Truthy(before["destination"]) /\ ~Truthy(before["hotel_preference"])
              THEN Str("3-star")
              ELSE before["hotel_preference"]
        /\ memory["transportation"] =
              IF /\ Truthy(before["origin"])
                 /\ Truthy(before["destination"])
                 /\ ~Truthy(before["transportation"])
              THEN List(<<"flight">>)
              ELSE before["transportation"]
        /\ \A f \in NeverAssumed : memory[f] = before[f]
    /\ AssumeRaised =>
        /\ memory = before
        /\ Truthy(before["check_in_date"])
        /\ ~Parses(before["check_in_date"])
        /\ ~Truthy(before["check_out_date"])

\* C7 witness: on 2025-06-20, with origin and destination known and nothing
\* else, gap-filling set check-in 2025-07-04, check-out 2025-07-11, "3-star"
\* and ["flight"].
C7_Witness ==
    /\ step = "assumed"
    /\ today = 171
    /\ before = [InitialMemory EXCEPT !["origin"] = Str("Delhi"), !["destination"] = Str("Bali")]
    /\ memory["check_in_date"] = Str("2025-07-04")
    /\ memory["check_out_date"] = Str("2025-07-11")
    /\ memory["hotel_preference"] = Str("3-star")
    /\ memory["transportation"] = List(<<"flight">>)

(***************************************************************************)
(* SpecKey: _generate_cache_key on two parameter dicts                     *)
(***************************************************************************)
\* the values a parameter may hold
ParamValues(name) ==
    CASE name = "location" -> {Str("Bali"), Str("Goa")}
      [] name = "adults" -> {Num(1), Num(2), Str("1")}
      [] name = "check_in_date" -> {Str("2025-07-01"), None}

ParamNames == {"location", "adults", "check_in_date"}

ParamItems == UNION {{<<name, v>> : v \in ParamValues(name)} : name \in ParamNames}

\* the dicts over these names: every choice of names, of values and of
\* insertion order
ParamDicts ==
    {d \in UNION {[1..n -> ParamItems] : n \in 0..Cardinality(ParamNames)} :
        \A i, j \in DOMAIN d : d[i][1] = d[j][1] => i = j}

\* _generate_cache_key(p) and _generate_cache_key(q)
Fingerprint(p, q) ==
    /\ fingerprinted = NoFingerprint
    /\ fingerprinted' = [params |-> <<p, q>>,
                         keys |-> <<generate_cache_key(p), generate_cache_key(q)>>]
    /\ UNCHANGED <<memory, now, today, step, before, new_info, merges, seen, extracted,
                   asked, turnVars, sessionVars, moduleVars>>

NextKey == \E p, q \in ParamDicts : Fingerprint(p, q)

SpecKey == Init /\ [][NextKey]_vars

(***************************************************************************)
(* Claims about the cache key                                              *)
(***************************************************************************)
Fingerprinted == fingerprinted # NoFingerprint

\* the two dicts hold the same (name, value) pairs
SamePairs == Range(fingerprinted.params[1]) = Range(fingerprinted.params[2])

\* C17: two parameter dicts holding the same pairs get the same key, whatever
\* the insertion order of their fields.
C17_KeyIgnoresOrder ==
    Fingerprinted /\ SamePairs => fingerprinted.keys[1] = fingerprinted.keys[2]

\* C17 witness: three fields inserted in two different orders, one key.
C17_Witness ==
    /\ Fingerprinted
    /\ fingerprinted.params[1] =
           <<<<"location", Str("Bali")>>, <<"check_in_date", None>>, <<"adults", Num(2)>>>>
    /\ fingerprinted.params[2] =
           <<<<"adults", Num(2)>>, <<"location", Str("Bali")>>, <<"check_in_date", None>>>>
    /\ fingerprinted.keys[1] = fingerprinted.keys[2]

\* C18: two parameter dicts that differ in a value or in their names get
\* different keys.
C18_KeyTellsApart ==
    Fingerprinted /\ ~SamePairs => fingerprinted.keys[1] # fingerprinted.keys[2]

\* C18 witness: two dicts that differ only in adults being the number 1 or the
\* string "1", with different keys.
C18_Witness ==
    /\ Fingerprinted
    /\ fingerprinted.params[1] = <<<<"location", Str("Bali")>>, <<"adults", Num(1)>>>>
    /\ fingerprinted.params[2] = <<<<"location", Str("Bali")>>, <<"adults", Str("1")>>>>
    /\ fingerprinted.keys[1] # fingerprinted.keys[2]

(***************************************************************************)
(* Claims about refresh and reuse                                          *)
(***************************************************************************)
SearchTypes == {"hotels", "flights"}

\* both search blocks of the turn have been passed
Searched == pc = "respond"

\* a refresh trigger holds in the turn
Trigger == ShouldSearch(force_refresh, dates_changed, locations_changed, is_first_interaction)

Applicable(t) == IF t = "hotels" THEN HotelsApplicable(memory) ELSE FlightsApplicable(memory)

\* the cache entry of the search type's current parameter set
CurrentKey(t) == IF t = "hotels" THEN HotelKey(memory) ELSE FlightKey(memory)

CacheOf(t) == IF t = "hotels" THEN cache["hotel_search"] ELSE cache["flight_search"]

\* C8 as claimed: in a turn with a refresh trigger every applicable search is
\* forced: the adapter is called and the provider is called, whatever the cache
\* holds.
C8_TriggerCallsProvider ==
    Searched => \A t \in SearchTypes :
                   Trigger /\ Applicable(t) =>
                       search_log[t].adapter /\ search_log[t].called

\* C8 as amended: in a turn with a refresh trigger every applicable search calls
\* the adapter with force_refresh equal to the prompt's keyword test; with a
\* keyword the provider is called whatever the cache holds; without one the
\* provider is called exactly when the cache holds no entry of the current
\* parameter set, and otherwise that entry's results are returned.
C8_TriggerCallsAdapter ==
    Searched => \A t \in SearchTypes :
                   Trigger /\ Applicable(t) =>
                       /\ search_log[t].path = "search"
                       /\ search_log[t].adapter
                       /\ search_log[t].force = force_refresh
                       /\ force_refresh => search_log[t].called
                       /\ ~force_refresh => (search_log[t].called <=> ~search_log[t].cached)
                       /\ ~search_log[t].called =>
                              search_results[t] = CacheOf(t)[CurrentKey(t)].results

\* C8 witness: the origin changed, the prompt holds no keyword, and the hotel
\* search, whose parameters are cached, was answered from the cache.
C8_Witness ==
    /\ Searched
    /\ locations_changed
    /\ ~force_refresh
    /\ ~is_first_interaction
    /\ search_log["hotels"].path = "search"
    /\ search_log["hotels"].cached
    /\ ~search_log["hotels"].called
    /\ search_results["hotels"] # << >>

\* C9: a prompt with a refresh keyword makes every applicable search call the
\* provider, also with dates and locations unchanged and the parameters cached.
C9_KeywordCallsProvider ==
    Searched => \A t \in SearchTypes :
                   force_refresh /\ Applicable(t) =>
                       /\ search_log[t].adapter
                       /\ search_log[t].force
                       /\ search_log[t].called

\* C9 witness: a later turn with a keyword, dates and locations unchanged, both
\* searches cached and both answered by a provider call.
C9_Witness ==
    /\ Searched
    /\ force_refresh
    /\ ~dates_changed
    /\ ~locations_changed
    /\ ~is_first_interaction
    /\ \A t \in SearchTypes : search_log[t].cached /\ search_log[t].called

\* C10: in a turn without trigger an applicable search whose parameters are
\* cached returns the entry's results without a provider call, and one whose
\* parameters are not cached makes a forced provider call.
C10_ReuseOrFallback ==
    Searched => \A t \in SearchTypes :
                   ~Trigger /\ Applicable(t) =>
                       /\ search_log[t].path = "reuse"
                       /\ search_log[t].cached =>
                              /\ ~search_log[t].called
                              /\ ~search_log[t].adapter
                              /\ search_results[t] = CacheOf(t)[CurrentKey(t)].results
                       /\ ~search_log[t].cached =>
                              /\ search_log[t].adapter
                              /\ search_log[t].force
                              /\ search_log[t].called

\* C10 witness: a turn without trigger in which the hotel search was answered
\* from the cache and the flight search, not cached, called the provider.
C10_Witness ==
    /\ Searched
    /\ ~Trigger
    /\ search_log["hotels"].path = "reuse"
    /\ search_log["hotels"].cached
    /\ ~search_log["hotels"].called
    /\ search_results["hotels"] # << >>
    /\ search_log["flights"].path = "reuse"
    /\ ~search_log["flights"].cached
    /\ search_log["flights"].called

(***************************************************************************)
(* Claims about the searches' results and failures                         *)
(***************************************************************************)
\* the provider call of the search type answered with a payload that holds the
\* keys the adapter reads
Succeeded(t) ==
    /\ search_log[t].called
    /\ search_log[t].response.kind = "data"
    /\ IF t = "hotels"
       THEN "properties" \in DOMAIN search_log[t].response.data
       ELSE \/ "best_flights" \in DOMAIN search_log[t].response.data
            \/ "other_flights" \in DOMAIN search_log[t].response.data

\* C11: a forced search calls the provider, and after a provider call that
\* succeeded the cache entry of the search's parameter set holds exactly the
\* results the call returned.
C11_ForcedSearchWritesCache ==
    Searched => \A t \in SearchTypes :
                   Applicable(t) =>
                       /\ search_log[t].force => search_log[t].called
                       /\ Succeeded(t) =>
                              /\ CurrentKey(t) \in DOMAIN CacheOf(t)
                              /\ CacheOf(t)[CurrentKey(t)].results = search_results[t]

\* the provider call of the search type raised, or gave a payload that is no
\* JSON, has not the expected shape or lacks the expected keys
Failed(t) == search_log[t].called /\ ~Succeeded(t)

\* C12: when the provider call of a search type fails, the type's entry of the
\* evidence bundle is the empty sequence, the turn goes on to the response and
\* the other search type, when it applies, has been carried out.
C12_ProviderFailureIsEmpty ==
    Searched => \A t \in SearchTypes :
                   Applicable(t) /\ Failed(t) =>
                       /\ search_results[t] = << >>
                       /\ \A u \in SearchTypes \ {t} :
                              Applicable(u) => /\ search_log[u].path # "none"
                                               /\ u \in DOMAIN search_results

\* C12 witness: in a turn with a refresh keyword the flight search, whose
\* parameters are cached, got an exception from the provider while the hotel
\* search found hotels.
C12_Witness ==
    /\ Searched
    /\ force_refresh
    /\ search_log["flights"].cached
    /\ search_log["flights"].response.kind = "raise"
    /\ search_results["flights"] = << >>
    /\ Succeeded("hotels")
    /\ search_results["hotels"] # << >>

(***************************************************************************)
(* Claims about extraction and failing turns                               *)
(***************************************************************************)
\* the language model gave no text, or a text that is no JSON object
NoPatchObtained == turn_log.llm.kind \in {"raise", "garbage", "not_mapping"}

\* C13: when the language model gives no response or no parseable one, the
\* extraction does not raise: the memory is as it was when the turn began and
\* the turn goes on to gap-filling.
C13_ExtractionNeverRaises ==
    NoPatchObtained => /\ turn_log.failed # "extract"
                       /\ turn_log.merged = turn_log.start

\* the values a field of a well-formed patch may hold
WellTypedValue(key, v) ==
    \/ v = None
    \/ key \in {"budget", "num_adults"} /\ IsNum(v)
    \/ key \in ScalarFields \ {"budget", "num_adults"} /\ IsStr(v)
    \/ key \in ListFields /\ IsList(v)

\* the language model's output is a JSON object holding memory fields with
\* values of their types
WellFormedPatch ==
    /\ turn_log.llm.kind = "json"
    /\ \A key \in DOMAIN turn_log.llm.value :
           key \in MemoryFields /\ WellTypedValue(key, turn_log.llm.value[key])

\* C14: when the language model's output is no well-formed patch, the memory
\* after the turn's merge step is the memory before it.
C14_MalformedPatchNotApplied ==
    turn_log.llm.kind \in {"garbage", "not_mapping", "json"} /\ ~WellFormedPatch
        => turn_log.merged = turn_log.start

\* C16: when a turn ends in plan_trip's except clause it returns the failure
\* message, and the memory and the cache are what the steps completed before
\* the failing step left.
C16_FailureKeepsState ==
    turn_log.failed # "none" =>
        /\ pc = "idle"
        /\ reply = "error"
        /\ memory = turn_log.kept.memory
        /\ cache = turn_log.kept.cache

\* C16 witness: the response generation failed in a turn whose searches had
\* filled the hotel cache and the flight cache.
C16_Witness ==
    /\ turn_log.failed = "respond"
    /\ reply = "error"
    /\ memory["destination"] = Str("Bali")
    /\ cache["hotel_search"] # << >>
    /\ cache["flight_search"] # << >>

(***************************************************************************)
(* Claims about the completion of a turn                                   *)
(***************************************************************************)
Replies == {"text", "error"}

\* C15: every turn that begins ends with plan_trip returning a reply string,
\* whatever the language model and the providers gave, and after every turn
\* plan_trip is ready for the next one.
C15_TurnCompletes ==
    /\ [](turns > 0 /\ pc = "idle" => reply \in Replies)
    /\ [](pc \in {"idle", "hotels", "flights", "respond"})
    /\ (pc # "idle") ~> (pc = "idle" /\ reply \in Replies)

\* C15 witness: the second turn of a session has ended with the failure message
\* after the first turn had ended with it as well.
C15_Witness ==
    /\ turns = 2
    /\ pc = "idle"
    /\ reply = "error"
    /\ turn_log.failed = "respond"
    /\ is_first_interaction = FALSE
    /\ cache["hotel_search"] # << >>

(***************************************************************************)
(* Claims about the reuse path's lookup and change detection               *)
(***************************************************************************)
\* the current parameter set of the search type
CurrentParams(t) ==
    IF t = "hotels"
    THEN HotelParams(memory["destination"], memory["check_in_date"], memory["check_out_date"],
                     GetOr(memory, "num_adults", Num(1)))
    ELSE FlightParams(get_airport_code(FlightOrigin(memory)),
                      get_airport_code(memory["destination"]), memory["check_in_date"],
                      Get(memory, "check_out_date"), GetOr(memory, "num_adults", Num(1)))

\* partial match: the two parameter sets agree on every name both hold
PartialMatch(p, q) ==
    \A name \in Keys(p) \cap Keys(q) : Lookup(p, name) = Lookup(q, name)

\* the keys of the cached entries that match the current parameter set
Matching(t) ==
    {k \in DOMAIN CacheOf(t) : PartialMatch(CacheOf(t)[k].parameters, CurrentParams(t))}

\* the search type is about to be processed on the reuse path
AtReuse(t) ==
    /\ pc = t
    /\ Applicable(t)
    /\ ~Trigger

\* C19: on the reuse path the lookup by cache key hits exactly when some cached
\* entry of the type matches the current parameter set partially, and the
\* results it returns are those of the matching entries.
C19_ReuseIsPartialMatch ==
    /\ \A t \in SearchTypes :
           AtReuse(t) => /\ CurrentKey(t) \in DOMAIN CacheOf(t) <=> Matching(t) # {}
                         /\ Matching(t) \subseteq {CurrentKey(t)}
    /\ Searched =>
           \A t \in SearchTypes :
               search_log[t].path = "reuse" /\ search_log[t].cached =>
                   /\ Matching(t) # {}
                   /\ \A k \in Matching(t) : search_results[t] = CacheOf(t)[k].results

\* C19 witness: the hotel search is about to take the reuse path with two
\* adults while the cache holds the entry of the same stay for one adult only:
\* no entry matches and the key is not in the cache.
C19_Witness ==
    /\ AtReuse("hotels")
    /\ memory["num_adults"] = Num(2)
    /\ DOMAIN cache["hotel_search"] # {}
    /\ Matching("hotels") = {}
    /\ CurrentKey("hotels") \notin DOMAIN cache["hotel_search"]

\* the turn has passed change detection
Detected == pc \in {"hotels", "flights", "respond"}

DateFields == {"check_in_date", "check_out_date"}

\* C20: dates_changed holds exactly when the check-in date or the check-out
\* date of the memory after merge and gap-filling differs from the one the
\* memory had before extraction; it is false when the two memories are equal.
C20_DatesChangedExact ==
    Detected =>
        /\ dates_changed <=> \E f \in DateFields : turn_log.start[f] # memory[f]
        /\ turn_log.start = memory => ~dates_changed

\* C20 witness: a turn in which the merge replaced the check-out date only.
C20_Witness ==
    /\ Detected
    /\ dates_changed
    /\ turn_log.start["check_in_date"] = memory["check_in_date"]
    /\ turn_log.start["check_out_date"] = Str("2025-07-11")
    /\ memory["check_out_date"] = Str("2025-07-10")

(***************************************************************************)
(* The text helpers on their own: _should_refresh_searches on a prompt and *)
(* get_airport_code on a city, called once                                 *)
(***************************************************************************)
\* pieces of prompts: keywords in several cases, words holding a keyword
\* inside, halves of a keyword, and words holding none
PromptPieces ==
    {"Refresh", "I KNOW", "hotels", "get me", "Get  Me", "TODAY", "upd", "ate", "in Bali"}

\* the user messages: the empty one, one piece, two pieces joined with or
\* without a blank
TextPrompts ==
    {""} \cup PromptPieces
         \cup {a \o sep \o b : a \in PromptPieces, b \in PromptPieces, sep \in {"", " "}}

\* the cities: None, the empty name, names of the table in several cases and
\* names that are not in the table
CityInputs ==
    {None} \cup {Str(name) : name \in {"", "delhi", "Delhi", "DELHI", "dElHi", "New York",
                                        "NEW YORK", "new york", "newyork", "Bali", "bali ",
                                        "Goa", "GOA", "Atlantis", "DPS", "Agra"}}

\* self._should_refresh_searches(prompt)
AskRefresh(prompt) ==
    /\ asked = NoCall
    /\ asked' = [fn |-> "should_refresh_searches", arg |-> prompt,
                 result |-> should_refresh_searches(prompt)]
    /\ UNCHANGED <<memory, now, today, step, before, new_info, merges, seen, extracted,
                   fingerprinted, turnVars, sessionVars, moduleVars>>

\* self.get_airport_code(city)
AskAirport(city) ==
    /\ asked = NoCall
    /\ asked' = [fn |-> "get_airport_code", arg |-> city, result |-> get_airport_code(city)]
    /\ UNCHANGED <<memory, now, today, step, before, new_info, merges, seen, extracted,
                   fingerprinted, turnVars, sessionVars, moduleVars>>

NextText ==
    \/ \E prompt \in TextPrompts : AskRefresh(prompt)
    \/ \E city \in CityInputs : AskAirport(city)

SpecText == Init /\ [][NextText]_vars

(***************************************************************************)
(* Claims about the text helpers                                           *)
(***************************************************************************)
\* the character c is the lower-case letter d or its capital
IsLetterOf(c, d) ==
    \/ c = d
    \/ \E i \in 1..Len(LowerCase) : SubSeq(LowerCase, i, i) = d /\ SubSeq(UpperCase, i, i) = c

\* the text reads word when the case of its letters is ignored
ReadsAs(text, word) ==
    /\ Len(text) = Len(word)
    /\ \A i \in 1..Len(word) : IsLetterOf(SubSeq(text, i, i), SubSeq(word, i, i))

\* some part of the text reads word
Mentions(text, word) ==
    \E i \in 1..(Len(text) - Len(word) + 1) : ReadsAs(SubSeq(text, i, i + Len(word) - 1), word)

TwelveKeywords ==
    {"search again", "check again", "refresh", "update", "new search", "latest", "current",
     "fresh", "now", "today", "find me", "get me"}

\* C21: wants_refresh is true exactly when the lower-cased user message
\* contains, as a substring, one of the twelve refresh keywords.
C21_RefreshIffKeyword ==
    asked.fn = "should_refresh_searches" =>
        (asked.result <=> \E word \in TwelveKeywords : Mentions(asked.arg, word))

\* C21 witness: a message that holds a keyword only across two of its words
\* and in capitals ("know" holds "now") asks for a refresh.
C21_Witness ==
    /\ asked.fn = "should_refresh_searches"
    /\ asked.arg = "I KNOW hotels"
    /\ asked.result = TRUE

\* no letter of the text is a capital
IsLowerCased(text) ==
    \A i \in 1..Len(text) : \A j \in 1..Len(UpperCase) :
        SubSeq(text, i, i) # SubSeq(UpperCase, j, j)

\* C26: get_airport_code gives None for None and for the empty name, the
\* code of the table for a city whose name is in the table whatever its case,
\* and the lower-cased name for any other city; it changes no state.
C26_AirportCodeTotal ==
    asked.fn = "get_airport_code" =>
        /\ asked.arg \in {None, Str("")} => asked.result = None
        /\ asked.arg \notin {None, Str("")} =>
              IF \E name \in DOMAIN AIRPORT_CODES : ReadsAs(asked.arg.str, name)
              THEN \E name \in DOMAIN AIRPORT_CODES :
                      /\ ReadsAs(asked.arg.str, name)
                      /\ asked.result = Str(AIRPORT_CODES[name])
              ELSE /\ IsStr(asked.result)
                   /\ ReadsAs(asked.arg.str, asked.result.str)
                   /\ IsLowerCased(asked.result.str)
        /\ memory = InitialMemory
        /\ cache = [hotel_search |-> << >>, flight_search |-> << >>]

\* C26 witness: a city of the table written in mixed case got its code.
C26_Witness ==
    /\ asked.fn = "get_airport_code"
    /\ asked.arg = Str("dElHi")
    /\ asked.result = Str("DEL")

(***************************************************************************)
(* Claims about which searches a turn carries out                          *)
(***************************************************************************)
\* the value is known: neither null nor empty
Known(v) == v \notin {None, Str(""), List(<< >>)}

\* the flight origin of the claim: the first transit city, else the origin
OriginOfFlight ==
    IF memory["transit_cities"].list # << >>
    THEN Str(memory["transit_cities"].list[1])
    ELSE memory["origin"]

HotelsNeeded ==
    Known(memory["destination"]) /\ Known(memory["check_in_date"])
        /\ Known(memory["check_out_date"])

FlightsNeeded ==
    Known(OriginOfFlight) /\ Known(memory["destination"]) /\ Known(memory["check_in_date"])

\* the turn names flights among its transportation modes, or names no mode
FlightsWanted ==
    memory["transportation"].list = << >> \/ "flight" \in Range(memory["transportation"].list)

\* the search type was processed and its key is in the evidence bundle
Processed(t) == search_log[t].path # "none" /\ t \in DOMAIN search_results

\* the search type was left out: not processed, no key in the evidence bundle
LeftOut(t) == search_log[t].path = "none" /\ t \notin DOMAIN search_results

\* C22 as claimed: hotels are processed exactly when destination and both
\* dates are known, flights exactly when flight origin, destination and check-in
\* date are known, and the bundle holds the keys of the processed types only.
C22_ProcessedIffKnown ==
    Searched =>
        /\ IF HotelsNeeded THEN Processed("hotels") ELSE LeftOut("hotels")
        /\ IF FlightsNeeded THEN Processed("flights") ELSE LeftOut("flights")

\* C22 amended: hotels are processed exactly when destination and both dates
\* are known; flights exactly when flight origin, destination and check-in date
\* are known and the transportation modes are empty or hold "flight"; the
\* bundle holds the keys of the processed types only.
C22_ProcessedIffWanted ==
    Searched =>
        /\ IF HotelsNeeded THEN Processed("hotels") ELSE LeftOut("hotels")
        /\ IF FlightsNeeded /\ FlightsWanted THEN Processed("flights") ELSE LeftOut("flights")

\* C22 witness: a traveller by train with origin, destination and dates known:
\* the hotels were searched, the flights were not.
C22_Witness ==
    /\ Searched
    /\ memory["transportation"] = List(<<"train">>)
    /\ FlightsNeeded
    /\ Processed("hotels")
    /\ LeftOut("flights")

(***************************************************************************)
(* Sessions: run_cli's reset and the turns of two instances                *)
(***************************************************************************)
AgentIds == {1, 2}

\* the words run_cli takes as a reset
ResetWords == {"reset", "start over", "new trip", "clear"}

\* what the user types at the prompt of run_cli
CliInputs == {"reset", "Start Over", "NEW TRIP", "clear", "reset please"}

\* user_input.lower() on these inputs, computed once
LowerOfInput == [text \in CliInputs |-> Lower(text)]

\* the state of the current instance
Snapshot ==
    [memory |-> memory, cache |-> cache, is_first_interaction |-> is_first_interaction]

\* mutant: the reset gives the instance a new memory dict only
ResetMemoryOnly(user_input) ==
    /\ pc = "idle"
    /\ LowerOfInput[user_input] \in ResetWords
    /\ LET agent == [init(FreshRef(heap, agents)) EXCEPT !.cache = agents[current].cache,
                         !.is_first_interaction = is_first_interaction]
           ags == [agents EXCEPT ![current] = agent]
           h == Collect(Alloc(heap, agent.memory, InitialMemory), ags)
       IN  /\ agents' = ags
           /\ heap' = h
           /\ memory' = h[agent.memory]
    /\ UNCHANGED <<now, today, memoryVars, moduleVars, turnVars, current>>

\* run_cli on a reset word: agent = TripMateAgent()
Reset(user_input) ==
    /\ pc = "idle"
    /\ LowerOfInput[user_input] \in ResetWords
    /\ LET agent == init(FreshRef(heap, agents))
           ags == [agents EXCEPT ![current] = agent]
           h == Collect(Construct(heap, agent), ags)
       IN  /\ agents' = ags
           /\ heap' = h
           /\ memory' = h[agent.memory]
           /\ cache' = h[agent.cache]
           /\ is_first_interaction' = agent.is_first_interaction
    /\ refresh_log' = NoRefresh
    /\ UNCHANGED <<now, today, memoryVars, moduleVars, pc, turns, user_prompt, previous_memory,
                   force_refresh, dates_changed, locations_changed, search_results,
                   search_log, reply, turn_log, current>>

\* a second instance is constructed: TripMateAgent()
NewAgent(a) ==
    /\ pc = "idle"
    /\ a \notin DOMAIN agents
    /\ LET agent == init(FreshRef(heap, agents))
       IN  /\ agents' = agents @@ (a :> agent)
           /\ heap' = Construct(heap, agent)
    /\ UNCHANGED <<memory, now, today, memoryVars, moduleVars, turnVars, current>>

\* the next turn is a turn of instance b: agent.plan_trip(...) with self = b
Switch(b) ==
    /\ pc = "idle"
    /\ b \in DOMAIN agents
    /\ b # current
    /\ LET self == agents[current]
           h == [heap EXCEPT ![self.memory] = memory, ![self.cache] = cache]
       IN  /\ agents' = [agents EXCEPT ![current].is_first_interaction = is_first_interaction,
                                       ![current].left = Snapshot]
           /\ heap' = h
           /\ current' = b
           /\ memory' = h[agents[b].memory]
           /\ cache' = h[agents[b].cache]
           /\ is_first_interaction' = agents[b].is_first_interaction
    /\ refresh_log' = NoRefresh
    /\ UNCHANGED <<now, today, memoryVars, moduleVars, pc, turns, user_prompt, previous_memory,
                   force_refresh, dates_changed, locations_changed, search_results,
                   search_log, reply, turn_log>>

\* run_cli: every input is a reset or a turn of the instance
NextCli ==
    \/ \E prompt \in Prompts, llm \in LiveOutcomes : BeginTurn(prompt, llm)
    \/ TurnStep
    \/ \E user_input \in CliInputs : Reset(user_input)

SpecCli == Init /\ [][NextCli]_vars

\* what generate_content gives in the turns of the two instances: no response,
\* a destination, or origin, destination and check-in date
SessionOutcomes ==
    {[kind |-> "raise"],
     [kind |-> "json", value |-> [destination |-> Str("Goa")]],
     [kind |-> "json",
      value |-> [origin |-> Str("Delhi"), destination |-> Str("Bali"),
                 check_in_date |-> Str("2025-07-01")]]}

\* two instances, their turns in any order
NextSessions ==
    \/ \E prompt \in Prompts, llm \in SessionOutcomes : BeginTurn(prompt, llm)
    \/ TurnStep
    \/ \E a \in AgentIds : NewAgent(a)
    \/ \E b \in AgentIds : Switch(b)

SpecSessions == Init /\ [][NextSessions]_vars

(***************************************************************************)
(* Claims about sessions                                                   *)
(***************************************************************************)
\* the step binds the session to a new instance
Rebound == current' = current /\ agents'[current].memory # agents[current].memory

\* C23: a reset leaves the memory with every scalar field null, num_adults 1
\* and both lists empty, both caches empty, and the first-turn flag set, so
\* that the next turn is the first turn of the session.
C23_ResetIsFresh ==
    [][Rebound =>
          /\ \A f \in ScalarFields \ {"num_adults"} : memory'[f] = None
          /\ memory'["num_adults"] = Num(1)
          /\ \A f \in ListFields : memory'[f] = List(<< >>)
          /\ cache'["hotel_search"] = << >>
          /\ cache'["flight_search"] = << >>
          /\ is_first_interaction']_vars

\* C23 witness: a reset in a session whose first turn had answered, which
\* clears the first-interaction flag: the instance is another object, its
\* memory and caches are the initial ones and the flag is set again.
C23_Witness ==
    /\ agents[1].memory # 1
    /\ turns = 1
    /\ pc = "idle"
    /\ reply = "text"
    /\ is_first_interaction
    /\ memory = InitialMemory
    /\ cache = EmptyCache

\* the dict an instance refers to, as it is now
Deref(ref, of_current, own) == IF ref = of_current THEN own ELSE heap[ref]

\* the state of instance a as it is now
StateOf(a) ==
    IF a = current
    THEN Snapshot
    ELSE [memory |-> Deref(agents[a].memory, agents[current].memory, memory),
          cache |-> Deref(agents[a].cache, agents[current].cache, cache),
          is_first_interaction |-> agents[a].is_first_interaction]

\* C24: no step of a turn of one instance changes the memory, the caches or the
\* first-turn flag of another instance, and an instance that takes over finds
\* its memory, its caches and its flag as it left them.
C24_SessionsIsolated ==
    [][/\ current' = current =>
              \A a \in DOMAIN agents \ {current} : StateOf(a)' = StateOf(a)
       /\ current' # current => Snapshot' = agents[current'].left]_vars

\* C24 witness: two instances that have each answered a turn, with different
\* destinations and each with its own cached hotels.
C24_Witness ==
    /\ DOMAIN agents = {1, 2}
    /\ current = 2
    /\ pc = "idle"
    /\ memory["destination"] = Str("Bali")
    /\ cache["hotel_search"] # << >>
    /\ StateOf(1).memory["destination"] = Str("Goa")
    /\ StateOf(1).cache["hotel_search"] # << >>
    /\ DOMAIN StateOf(1).cache["hotel_search"] \cap DOMAIN cache["hotel_search"] = {}
    /\ StateOf(1).cache["flight_search"] = << >>
    /\ cache["flight_search"] # << >>

(***************************************************************************)
(* Claims about the life of cache entries                                  *)
(***************************************************************************)
CacheNames == {"hotel_search", "flight_search"}

\* C25: a cache key that is present stays present through every later step of
\* the session: entries are added or overwritten, never removed.
C25_NoEviction ==
    [][\A name \in CacheNames : DOMAIN cache[name] \subseteq DOMAIN cache'[name]]_vars

\* C25 witness: after two turns the hotel cache holds the entries of two
\* parameter sets, the older one still there.
C25_Witness ==
    /\ pc = "idle"
    /\ turns = 2
    /\ Cardinality(DOMAIN cache["hotel_search"]) = 2
    /\ \E k \in DOMAIN cache["hotel_search"] :
           Lookup(cache["hotel_search"][k].parameters, "location") # memory["destination"]

(***************************************************************************)
(* Claims about the order of the steps of a turn                           *)
(***************************************************************************)
\* the steps plan_trip may take from one position to the next
StepOrder ==
    {<<"idle", "hotels">>, <<"hotels", "flights">>, <<"flights", "respond">>,
     <<"respond", "idle">>}

\* the patch the extraction gave in the turn
PatchOfTurn == IF turn_log.llm.kind = "json" THEN turn_log.llm.value ELSE << >>

\* C27: a turn goes through extraction and merge, gap-filling, change
\* detection, hotel search, flight search and response in this order: when
\* the searches begin the memory holds the patch's destination together with
\* the dates and the hotel preference that gap-filling gives it, and the change
\* flags compare the memory of the turn's start with the gap-filled one; the
\* hotel search is done and its result in the bundle before the flight search
\* begins; the response is generated after both.
C27_StepsInOrder ==
    /\ [][pc' # pc => <<pc, pc'>> \in StepOrder]_vars
    /\ [](Detected =>
            /\ \A f \in {"origin", "destination"} :
                   Get(PatchOfTurn, f) # None => memory[f] = PatchOfTurn[f]
            /\ Truthy(memory["destination"]) =>
                   /\ Truthy(memory["check_in_date"])
                   /\ Truthy(memory["check_out_date"])
                   /\ Truthy(memory["hotel_preference"])
            /\ dates_changed <=> \E f \in DateFields : turn_log.start[f] # memory[f]
            /\ locations_changed <=>
                   \E f \in {"origin", "destination"} : turn_log.start[f] # memory[f])
    /\ [](pc = "hotels" => search_results = << >> /\ \A t \in SearchTypes : LeftOut(t))
    /\ [](pc = "flights" =>
            /\ IF HotelsNeeded THEN Processed("hotels") ELSE LeftOut("hotels")
            /\ LeftOut("flights"))
    /\ [](pc = "respond" => \A t \in SearchTypes : Applicable(t) => Processed(t))

\* C27 witness: the first turn names a destination only; when the flight
\* search is about to begin the dates are filled in, the change flags are set
\* and the hotels are in the bundle.
C27_Witness ==
    /\ pc = "flights"
    /\ turns = 1
    /\ PatchOfTurn = [destination |-> Str("Bali")]
    /\ memory["check_in_date"] = Str("2025-07-04")
    /\ dates_changed
    /\ locations_changed
    /\ Processed("hotels")
    /\ search_results["hotels"] # << >>

(***************************************************************************)
(* Claims about the change of places                                       *)
(***************************************************************************)
PlaceFields == {"origin", "destination"}

\* the fields whose change is no refresh trigger
OtherFields == {"transit_cities", "num_adults", "budget", "hotel_preference"}

\* the turn changed neither a place nor a date
PlacesAndDatesKept ==
    \A f \in PlaceFields \cup DateFields : turn_log.start[f] = memory[f]

\* C28: locations_changed holds exactly when the origin or the destination of
\* the memory after merge and gap-filling differs from the one before
\* extraction; a turn that changes neither places nor dates, whatever it does
\* to transit cities, travellers, budget or hotel preference, sets no change
\* flag, and unless the prompt asks for a refresh or the instance has not
\* finished its first turn, every search of the turn takes the reuse path.
C28_OnlyPlacesCount ==
    /\ [](Detected =>
            /\ locations_changed <=> \E f \in PlaceFields : turn_log.start[f] # memory[f]
            /\ PlacesAndDatesKept => ~locations_changed /\ ~dates_changed)
    /\ [][(/\ pc \in {"hotels", "flights"}
           /\ PlacesAndDatesKept
           /\ ~force_refresh
           /\ ~is_first_interaction)
              => \A t \in SearchTypes : search_log'[t].path \in {"none", "reuse"}]_vars

\* C28 witness: the second turn changes the number of travellers only; the
\* hotel search takes the reuse path, where the new parameter set has no
\* cache entry.
C28_Witness ==
    /\ pc = "respond"
    /\ turns = 2
    /\ PlacesAndDatesKept
    /\ turn_log.start["num_adults"] = Num(1)
    /\ memory["num_adults"] = Num(2)
    /\ \A f \in OtherFields \ {"num_adults"} : turn_log.start[f] = memory[f]
    /\ ~force_refresh
    /\ ~locations_changed
    /\ Processed("hotels")
    /\ search_log["hotels"].path = "reuse"
    /\ DOMAIN cache["hotel_search"] # {}

(***************************************************************************)
(* Claims about whose results a turn shows                                 *)
(***************************************************************************)
\* the list the adapter of the search type builds of the provider's payload
ResultsOfCall(t) ==
    LET data == search_log[t].response.data
    IN  IF t = "hotels"
        THEN [i \in 1..Len(Take(data.properties, 5)) |-> HotelRecord(data.properties[i])]
        ELSE FlightsOf(data, "best_flights", "Best Flight", 3)
                 \o FlightsOf(data, "other_flights", "Alternative Flight", 2)

\* the cache holds an entry of the current parameter set with these results
CachedForCurrent(t, results) ==
    /\ generate_cache_key(CurrentParams(t)) \in DOMAIN CacheOf(t)
    /\ CacheOf(t)[generate_cache_key(CurrentParams(t))].parameters = CurrentParams(t)
    /\ CacheOf(t)[generate_cache_key(CurrentParams(t))].results = results

\* C29: every cache entry is written under the key of its own parameters (the
\* cache starts empty, so every entry it holds is stored under that key), and
\* the results a turn puts in the evidence bundle for a search type are empty,
\* or built of the payload of a provider call of this turn and cached under the
\* current parameter set, or, without a provider call, the results of the cache
\* entry whose parameters are the current ones.
C29_ResultsOfCurrentParameters ==
    /\ [][\A name \in CacheNames : \A k \in DOMAIN cache'[name] :
             (k \notin DOMAIN cache[name] \/ cache'[name][k] # cache[name][k])
                 => k = generate_cache_key(cache'[name][k].parameters)]_vars
    /\ [](Searched =>
            \A t \in SearchTypes :
                Processed(t) =>
                    \/ search_results[t] = << >>
                    \/ /\ Succeeded(t)
                       /\ search_results[t] = ResultsOfCall(t)
                       /\ CachedForCurrent(t, search_results[t])
                    \/ /\ ~search_log[t].called
                       /\ CachedForCurrent(t, search_results[t]))

\* C29 witness: the second turn changes the number of adults only, which is
\* no trigger; the hotel cache holds the stay for one adult, and the hotels of
\* the bundle are those of a provider call of this turn, cached for two adults.
C29_Witness ==
    /\ Searched
    /\ turns = 2
    /\ ~Trigger
    /\ turn_log.start["num_adults"] = Num(1)
    /\ memory["num_adults"] = Num(2)
    /\ Cardinality(DOMAIN cache["hotel_search"]) = 2
    /\ search_log["hotels"].path = "reuse"
    /\ search_log["hotels"].called
    /\ search_results["hotels"] # << >>
    /\ CachedForCurrent("hotels", search_results["hotels"])

(***************************************************************************)
(* SpecRefresh: a session of one turn more, in which a refresh can fail    *)
(* over a cached entry and a later turn can reuse the entry                *)
(***************************************************************************)
\* the language model names the whole trip, or nothing new
RefreshOutcomes ==
    {[kind |-> "json", value |-> << >>],
     [kind |-> "json",
      value |-> [origin |-> Str("Delhi"), destination |-> Str("Bali"),
                 check_in_date |-> Str("2025-07-01")]]}

\* the flight responses of each kind, and a result without flights
RefreshFlightResponses ==
    LiveFlightResponses \cup {[kind |-> "data", data |-> [best_flights |-> << >>]]}

NextRefresh ==
    \/ \E prompt \in Prompts, llm \in RefreshOutcomes : BeginTurnWithin(MaxTurns + 1, prompt, llm)
    \/ \E resp \in LiveHotelResponses : HotelStage(resp)
    \/ \E resp \in RefreshFlightResponses : FlightStage(resp)
    \/ \E answered \in BOOLEAN : Respond(answered)

SpecRefresh == Init /\ [][NextRefresh]_vars

\* the payload holds no flight
NoFlightsIn(resp) ==
    /\ resp.kind = "data"
    /\ FlightsOf(resp.data, "best_flights", "Best Flight", 3) = << >>
    /\ FlightsOf(resp.data, "other_flights", "Alternative Flight", 2) = << >>

\* the step is a search of the type whose forced provider call, made while the
\* parameters were cached, raised or, for flights, gave no flights
RefreshFails(t) ==
    /\ pc = t
    /\ search_log'[t].called
    /\ search_log'[t].force
    /\ search_log'[t].cached
    /\ \/ search_log'[t].response.kind \in {"raise", "invalid"}
       \/ t = "flights" /\ NoFlightsIn(search_log'[t].response)

\* C30: a forced provider call that raises or, for flights, gives no flights
\* while its parameters are cached leaves the cache as it was and puts the
\* empty sequence in the turn's bundle; a later turn that takes the reuse path
\* with the same parameters gets the results the entry held before the failed
\* call, without a provider call.
C30_FailedRefreshKeepsEntry ==
    /\ [][\A t \in SearchTypes :
             RefreshFails(t) => /\ cache' = cache
                                /\ search_results'[t] = << >>]_vars
    /\ [](Searched =>
            \A t \in SearchTypes :
                (/\ refresh_log[t] # << >>
                 /\ search_log[t].path = "reuse"
                 /\ CurrentKey(t) = refresh_log[t].key)
                    => /\ ~search_log[t].called
                       /\ search_results[t] = refresh_log[t].results)

\* C30 witness: the third turn reuses both searches; the hotel refresh before
\* it had raised and the flight refresh had given no flights, and both searches
\* return the results cached before.
C30_Witness ==
    /\ Searched
    /\ turns = 3
    /\ \A t \in SearchTypes :
           /\ refresh_log[t] # << >>
           /\ search_log[t].path = "reuse"
           /\ CurrentKey(t) = refresh_log[t].key
           /\ ~search_log[t].called
           /\ search_results[t] = refresh_log[t].results
           /\ search_results[t] # << >>
    /\ refresh_log["hotels"].how = "raised"
    /\ refresh_log["flights"].how = "empty"

(***************************************************************************)
(* SpecClock: the turns of a session while the days pass                   *)
(***************************************************************************)
NextClock ==
    \/ \E prompt \in Prompts, llm \in RefreshOutcomes : BeginTurnWithin(MaxTurns + 1, prompt, llm)
    \/ \E resp \in LiveHotelResponses : HotelStage(resp)
    \/ \E resp \in RefreshFlightResponses : FlightStage(resp)
    \/ \E answered \in BOOLEAN : Respond(answered)
    \/ Tick

SpecClock == Init /\ [][NextClock]_vars

\* the step is the search of the type, and its provider call gave a result
\* that the adapter stores
Overwrites(t) ==
    /\ pc = t
    /\ Succeeded(t)'
    /\ t = "flights" => search_results'[t] # << >>

\* C31: a cache entry never expires.  An entry changes only in a search of its
\* type whose provider call, made for the entry's own parameters, succeeded;
\* and a search that does not force a refresh and finds its parameters cached
\* returns the entry's results without a provider call, whatever the day the
\* entry was written on.
C31_EntriesNeverExpire ==
    /\ [][\A t \in SearchTypes : \A k \in DOMAIN CacheOf(t) :
             (k \notin DOMAIN CacheOf(t)' \/ CacheOf(t)'[k] # CacheOf(t)[k])
                 => /\ Overwrites(t)
                    /\ k = CurrentKey(t)
                    /\ k \in DOMAIN CacheOf(t)']_vars
    /\ [][\A t \in SearchTypes :
             (/\ pc = t
              /\ pc' # t
              /\ Applicable(t)
              /\ CurrentKey(t) \in DOMAIN CacheOf(t)
              /\ ~force_refresh)
                 => /\ ~search_log'[t].called
                    /\ search_results'[t] = CacheOf(t)[CurrentKey(t)].results
                    /\ CacheOf(t)' = CacheOf(t)]_vars

\* C31 witness: the third turn, two days after the first, reuses the hotels
\* and the flights cached on the first day without a provider call.
C31_Witness ==
    /\ Searched
    /\ turns = 3
    /\ now > Today
    /\ ~force_refresh
    /\ \A t \in SearchTypes :
           /\ Processed(t)
           /\ ~search_log[t].called
           /\ CacheOf(t)[CurrentKey(t)].timestamp = Today
           /\ search_results[t] = CacheOf(t)[CurrentKey(t)].results
           /\ search_results[t] # << >>

(***************************************************************************)
(* Claims about the first-turn flag                                        *)
(***************************************************************************)
\* the step ends a turn that got past the search stage
PastSearches == pc = "respond" /\ pc' = "idle"

\* C32: the first-turn flag is true when the session is created, is false
\* after every turn that got past the search stage, whether or not a search
\* was applicable, is changed by no other step, so it is never set back to
\* true and stays true after a turn that aborts before that; and a turn that
\* finds the flag true takes the search path for every search it makes.
C32_FirstTurnFlag ==
    /\ [](turns = 0 => is_first_interaction)
    /\ [][PastSearches => ~is_first_interaction']_vars
    /\ [][~PastSearches => is_first_interaction' = is_first_interaction]_vars
    /\ [](Searched /\ is_first_interaction =>
            \A t \in SearchTypes : Applicable(t) => search_log[t].path = "search")

\* C32 witness: the second turn of a session finds the flag still true, the
\* first turn having aborted; without refresh keyword it takes the search path
\* for the hotels.
C32_Witness ==
    /\ Searched
    /\ turns = 2
    /\ is_first_interaction
    /\ ~force_refresh
    /\ Processed("hotels")
    /\ search_log["hotels"].path = "search"
    /\ search_log["hotels"].called

(***************************************************************************)
(* Claims about the memory the search stage sees                           *)
(***************************************************************************)
\* gap-filling has returned: as the last memory operation, or in the turn
GapFilled == step \in {"assumed", "assumed_again"} \/ Detected

\* C33: after gap-filling has returned, a known destination comes with a
\* check-in date, a check-out date and a hotel preference that are not null,
\* a known origin and destination come with a non-empty transportation, and
\* with a known destination the hotel search is applicable.
C33_GapFilledMemory ==
    GapFilled =>
        /\ Known(memory["destination"]) =>
               /\ memory["check_in_date"] # None
               /\ memory["check_out_date"] # None
               /\ memory["hotel_preference"] # None
               /\ HotelsApplicable(memory)
        /\ Known(memory["origin"]) /\ Known(memory["destination"]) =>
               /\ memory["transportation"] # None
               /\ memory["transportation"] # List(<< >>)
               /\ memory["transportation"] # Str("")

\* C33 witness: the patches gave a destination, an origin and an empty
\* string as check-in date; gap-filling filled the dates, the hotel preference
\* and the transportation.
C33_Witness ==
    /\ step = "assumed"
    /\ before["destination"] = Str("Bali")
    /\ before["origin"] = Str("Delhi")
    /\ before["check_in_date"] = Str("")
    /\ before["check_out_date"] = None
    /\ before["transportation"] = List(<< >>)
    /\ memory["check_in_date"] = Str(strftime(today + 14))
    /\ memory["check_out_date"] = Str(strftime(today + 21))
    /\ memory["hotel_preference"] = Str("3-star")
    /\ memory["transportation"] = List(<<"flight">>)

(***************************************************************************)
(* Claims about the departure and the fingerprint of a flight search       *)
(***************************************************************************)
\* "search_params" as search_flights builds it of the arguments of its call
SearchSiteParams(origin, destination, departure_date, return_date, adults) ==
    FlightParams(get_airport_code(origin), get_airport_code(destination),
                 departure_date, return_date, adults)

\* "search_params" as the reuse path of plan_trip builds it of the memory
ReuseSiteParams(mem) ==
    FlightParams(get_airport_code(FlightOrigin(mem)), get_airport_code(mem["destination"]),
                 mem["check_in_date"], Get(mem, "check_out_date"),
                 GetOr(mem, "num_adults", Num(1)))

\* the parameter set of a flight search that leaves the claimed departure
ParamsOfDeparture ==
    SearchSiteParams(OriginOfFlight, memory["destination"], memory["check_in_date"],
                     Get(memory, "check_out_date"), GetOr(memory, "num_adults", Num(1)))

\* C34: in a turn that processes the flight search the departure is the first
\* transit city when there is one and the origin otherwise: the parameter set
\* of the reuse path and the one search_flights builds for the call of the
\* search path are both the parameter set of that departure, so both sites
\* compute one fingerprint; an entry the turn writes is stored under it with
\* the code of that departure, and a lookup without provider call serves the
\* entry stored under it.
C34_DepartureAndFingerprint ==
    Searched /\ Processed("flights") =>
        /\ FlightOrigin(memory) = OriginOfFlight
        /\ ReuseSiteParams(memory) = ParamsOfDeparture
        /\ SearchSiteParams(FlightOrigin(memory), memory["destination"],
                            memory["check_in_date"], Get(memory, "check_out_date"),
                            GetOr(memory, "num_adults", Num(1))) = ParamsOfDeparture
        /\ FlightKey(memory) = generate_cache_key(ParamsOfDeparture)
        /\ Succeeded("flights") /\ search_results["flights"] # << >> =>
               /\ generate_cache_key(ParamsOfDeparture) \in DOMAIN cache["flight_search"]
               /\ cache["flight_search"][generate_cache_key(ParamsOfDeparture)].parameters
                      = ParamsOfDeparture
               /\ Lookup(cache["flight_search"][generate_cache_key(ParamsOfDeparture)].parameters,
                         "origin") = get_airport_code(OriginOfFlight)
        /\ ~search_log["flights"].called =>
               /\ generate_cache_key(ParamsOfDeparture) \in DOMAIN cache["flight_search"]
               /\ search_results["flights"]
                      = cache["flight_search"][generate_cache_key(ParamsOfDeparture)].results

\* C34 witness: the origin is Delhi and the first transit city Agra; the
\* second turn's flight search is cached with the code of Agra as its origin.
C34_Witness ==
    /\ Searched
    /\ turns = 2
    /\ memory["origin"] = Str("Delhi")
    /\ memory["transit_cities"] = List(<<"Agra">>)
    /\ Succeeded("flights")
    /\ search_results["flights"] # << >>
    /\ FlightKey(memory) \in DOMAIN cache["flight_search"]
    /\ Lookup(cache["flight_search"][FlightKey(memory)].parameters, "origin") = Str("AGR")

(***************************************************************************)
(* SpecSchema: the memory under merges of any JSON object, also one with a *)
(* key the memory has not or with a string where the memory holds a list   *)
(***************************************************************************)
\* JSON objects json.loads may return besides the ones of the nine fields
OtherJsonObjects ==
    {[hotel_name |-> Str("Taj")],
     [transit_cities |-> Str("Agra")],
     [transportation |-> Str("flight")],
     [destination |-> Str("Goa"), travellers |-> Num(2)]}

JsonPatches == Patches \cup OtherJsonObjects

NextSchema == \E info \in JsonPatches : Merge(info)

SpecSchema == Init /\ [][NextSchema]_vars

\* C35 as claimed: after any sequence of merges of JSON objects the memory has
\* exactly the nine fields, and transit_cities and transportation are lists.
C35_NineFieldsAndLists ==
    /\ DOMAIN memory = MemoryFields
    /\ \A f \in ListFields : IsList(memory[f])

(***************************************************************************)
(* Claims about the number and the order of the records of a search        *)
(***************************************************************************)
\* data[name], or the empty list when the payload has not the key
ListOf(data, name) == IF name \in DOMAIN data THEN data[name] ELSE << >>

\* C36: a search gives at most five records.  After a provider call that
\* gave properties the hotel results are the records of the first five
\* properties, in the provider's order; after a provider call that gave flights
\* the flight results are the records of the first three best_flights followed
\* by the records of the first two other_flights; in any flight result, also a
\* cached one, every best flight precedes every alternative flight.
C36_AtMostFiveRecords ==
    Searched =>
        /\ \A t \in SearchTypes : Processed(t) => Len(search_results[t]) <= 5
        /\ Processed("hotels") /\ Succeeded("hotels") =>
               LET props == search_log["hotels"].response.data.properties
                   hotels == search_results["hotels"]
               IN  /\ Len(hotels) = Min(5, Len(props))
                   /\ \A i \in 1..Len(hotels) : hotels[i] = HotelRecord(props[i])
        /\ Processed("flights") /\ Succeeded("flights") =>
               LET best == ListOf(search_log["flights"].response.data, "best_flights")
                   other == ListOf(search_log["flights"].response.data, "other_flights")
                   flights == search_results["flights"]
               IN  /\ Len(flights) = Min(3, Len(best)) + Min(2, Len(other))
                   /\ \A i \in 1..Min(3, Len(best)) :
                          flights[i] = FlightRecord("Best Flight", best[i])
                   /\ \A i \in 1..Min(2, Len(other)) :
                          flights[Min(3, Len(best)) + i]
                              = FlightRecord("Alternative Flight", other[i])
        /\ Processed("flights") =>
               \A i, j \in 1..Len(search_results["flights"]) :
                   /\ search_results["flights"][i].type = "Alternative Flight"
                   /\ search_results["flights"][j].type = "Best Flight"
                   => j < i

\* C36 witness: the provider gave six properties and four best and three other
\* flights; the turn has five hotels and five flights.
C36_Witness ==
    /\ Searched
    /\ Succeeded("hotels")
    /\ Len(search_log["hotels"].response.data.properties) = 6
    /\ Len(search_results["hotels"]) = 5
    /\ search_results["hotels"][5] = [name |-> "H5"]
    /\ Succeeded("flights")
    /\ Len(search_log["flights"].response.data.best_flights) = 4
    /\ Len(search_log["flights"].response.data.other_flights) = 3
    /\ Len(search_results["flights"]) = 5
    /\ search_results["flights"][4] = [type |-> "Alternative Flight", airline |-> "B1"]

(***************************************************************************)
(* The service classes FlightService and HotelService: an instance keeps   *)
(* the reference of its cache dict; the dicts are in mappings.             *)
(***************************************************************************)
MaxSearches == 2        \* searches of one service instance (SpecService)

ServiceIds == {1, 2}

ServiceKinds == {"flight", "hotel"}

\* no object: the argument None
NoRef == 0

\* constants.AIRPORT_CODES
constants_AIRPORT_CODES ==
    [delhi |-> "DEL", mumbai |-> "BOM", chennai |-> "MAA", kolkata |-> "CCU",
     bengaluru |-> "BLR", bangalore |-> "BLR", hyderabad |-> "HYD", bali |-> "DPS",
     denpasar |-> "DPS", bangkok |-> "BKK", london |-> "LHR", paris |-> "CDG",
     dubai |-> "DXB", singapore |-> "SIN", tokyo |-> "HND", sydney |-> "SYD"]
        @@ ("new york" :> "JFK")

\* utils.get_airport_code, for None or a string
utils_get_airport_code(city) ==
    IF ~Truthy(city)
    THEN None
    ELSE LET city_lower == lower(city.str)
         IN  IF city_lower \in DOMAIN constants_AIRPORT_CODES
             THEN Str(constants_AIRPORT_CODES[city_lower])
             ELSE Str(city_lower)

\* FlightService._extract_airline_name and the record built of one flight
ServiceFlightRecord(type, flight_data) ==
    [type |-> type,
     airline |-> IF "flights" \in DOMAIN flight_data /\ flight_data.flights # << >>
                 THEN IF "airline" \in DOMAIN flight_data.flights[1]
                      THEN flight_data.flights[1].airline
                      ELSE "Unknown"
                 ELSE "Unknown"]

ServiceFlightsOf(data, name, type, n) ==
    IF name \in DOMAIN data /\ data[name] # << >>
    THEN LET top == Take(data[name], n)
         IN  [i \in 1..Len(top) |-> ServiceFlightRecord(type, top[i])]
    ELSE << >>

\* FlightService.search_flights on the dict self.cache
FlightService_search_flights(self_cache, origin, destination, departure_date, return_date, adults, force, resp, time) ==
    LET search_params == FlightParams(utils_get_airport_code(origin),
                                      utils_get_airport_code(destination),
                                      departure_date, return_date, adults)
        cache_key == generate_cache_key(search_params)
    IN  IF ~force /\ cache_key \in DOMAIN self_cache
        THEN [results |-> self_cache[cache_key].results, cache |-> self_cache, called |-> FALSE]
        ELSE IF resp.kind \in {"raise", "invalid"}
        THEN [results |-> << >>, cache |-> self_cache, called |-> TRUE]
        ELSE LET flights == ServiceFlightsOf(resp.data, "best_flights", "Best Flight", 3)
                            \o ServiceFlightsOf(resp.data, "other_flights",
                                                "Alternative Flight", 2)
             IN  [results |-> flights,
                  cache |-> IF flights # << >>
                            THEN Put(self_cache, cache_key,
                                     [parameters |-> search_params, timestamp |-> time,
                                      results |-> flights])
                            ELSE self_cache,
                  called |-> TRUE]

\* the record HotelService builds of one property: values "Unknown" are left out
ServiceHotelRecord(hotel) ==
    IF "name" \in DOMAIN hotel /\ hotel.name \notin {"Unknown", ""}
    THEN [name |-> hotel.name]
    ELSE << >>

\* HotelService.search_hotels on the dict self.cache
HotelService_search_hotels(self_cache, location, check_in_date, check_out_date, adults, force, resp, time) ==
    LET search_params == HotelParams(location, check_in_date, check_out_date, adults)
        cache_key == generate_cache_key(search_params)
    IN  IF ~force /\ cache_key \in DOMAIN self_cache
        THEN [results |-> self_cache[cache_key].results, cache |-> self_cache, called |-> FALSE]
        ELSE IF resp.kind \in {"raise", "invalid"}
        THEN [results |-> << >>, cache |-> self_cache, called |-> TRUE]
        ELSE IF "properties" \in DOMAIN resp.data
        THEN LET top == Take(resp.data.properties, 5)
                 hotels == [i \in 1..Len(top) |-> ServiceHotelRecord(top[i])]
             IN  [results |-> hotels,
                  cache |-> Put(self_cache, cache_key,
                                [parameters |-> search_params, timestamp |-> time,
                                 results |-> hotels]),
                  called |-> TRUE]
        ELSE [results |-> << >>, cache |-> self_cache, called |-> TRUE]

\* the arguments of the searches of the model
ServiceTrips ==
    {[origin |-> Str("Delhi"), destination |-> Str("Bali"), check_in_date |-> Str("2025-07-01"),
      check_out_date |-> Str("2025-07-08"), adults |-> Num(1)],
     [origin |-> Str("Delhi"), destination |-> Str("Goa"), check_in_date |-> Str("2025-07-01"),
      check_out_date |-> Str("2025-07-08"), adults |-> Num(1)]}

\* the parameter set a service builds of the arguments
ServiceParams(kind, trip) ==
    IF kind = "flight"
    THEN FlightParams(utils_get_airport_code(trip.origin),
                      utils_get_airport_code(trip.destination),
                      trip.check_in_date, trip.check_out_date, trip.adults)
    ELSE HotelParams(trip.destination, trip.check_in_date, trip.check_out_date, trip.adults)

ServiceKey(kind, trip) == generate_cache_key(ServiceParams(kind, trip))

\* the dict the caller passes as cache: None, an empty dict, or a dict that
\* holds an entry of the trip to Bali
GivenCaches == {"None", "empty", "filled"}

GivenContents(kind, given) ==
    IF given = "filled"
    THEN LET trip == CHOOSE t \in ServiceTrips : t.destination = Str("Bali")
         IN  ServiceKey(kind, trip) :>
                 [parameters |-> ServiceParams(kind, trip), timestamp |-> Today,
                  results |-> IF kind = "flight"
                              THEN <<[type |-> "Best Flight", airline |-> "Old"]>>
                              ELSE <<[name |-> "Old"]>>]
    ELSE << >>

\* what requests.get(url).json() gives to a service
ServiceResponses(kind) ==
    IF kind = "flight"
    THEN {[kind |-> "raise"],
          [kind |-> "data", data |-> [error |-> "no results"]],
          [kind |-> "data",
           data |-> [best_flights |-> <<[flights |-> <<[airline |-> "A1"]>>]>>]]}
    ELSE {[kind |-> "raise"],
          [kind |-> "data", data |-> [error |-> "no results"]],
          [kind |-> "data", data |-> [properties |-> <<[name |-> "H1"]>>]]}

\* __init__ of both services, "self.cache = cache or {}": the reference kept
\* in self.cache (fresh: where the dict display {} is put)
service_init(cache_ref, maps, fresh) ==
    IF cache_ref # NoRef /\ maps[cache_ref] # << >> THEN cache_ref ELSE fresh

NoSearchYet == [called |-> FALSE, force |-> FALSE, results |-> << >>, trip |-> << >>,
                given_before |-> << >>, stored |-> FALSE]

\* service = FlightService(api_key, cache) or HotelService(api_key, cache),
\* the caller's dict at reference 2s - 1
NewService(s, kind, given) ==
    /\ s \notin DOMAIN services
    /\ s - 1 \in DOMAIN services \/ s = 1
    /\ LET ref == IF given = "None" THEN NoRef ELSE 2 * s - 1
           maps == IF given = "None"
                   THEN mappings
                   ELSE mappings @@ (ref :> GivenContents(kind, given))
           self_cache == service_init(ref, maps, 2 * s)
       IN  /\ mappings' = IF self_cache = 2 * s THEN maps @@ (2 * s :> << >>) ELSE maps
           /\ services' = services @@
                  (s :> [kind |-> kind, given |-> ref, cache |-> self_cache, searches |-> 0,
                         last |-> NoSearchYet])
    /\ UNCHANGED <<memory, now, today, memoryVars, turnVars, sessionVars, main_pc, conn>>

\* service.search_flights(...) or service.search_hotels(...)
ServiceSearch(s, trip, force, resp) ==
    /\ s \in DOMAIN services
    /\ services[s].searches < MaxSearches
    /\ LET self == services[s]
           r == IF self.kind = "flight"
                THEN FlightService_search_flights(mappings[self.cache], trip.origin,
                         trip.destination, trip.check_in_date, trip.check_out_date,
                         trip.adults, force, resp, now)
                ELSE HotelService_search_hotels(mappings[self.cache], trip.destination,
                         trip.check_in_date, trip.check_out_date, trip.adults, force, resp, now)
       IN  /\ mappings' = [mappings EXCEPT ![self.cache] = r.cache]
           /\ services' = [services EXCEPT
                  ![s].searches = @ + 1,
                  ![s].last = [called |-> r.called, force |-> force, results |-> r.results,
                               trip |-> trip,
                               given_before |-> IF self.given = NoRef
                                                THEN << >> ELSE mappings[self.given],
                               stored |-> r.cache # mappings[self.cache]
                                              \/ (r.called /\ resp.kind = "data"
                                                  /\ ServiceKey(self.kind, trip)
                                                         \in DOMAIN r.cache
                                                  /\ r.cache[ServiceKey(self.kind, trip)].results
                                                         = r.results)]]
    /\ UNCHANGED <<memory, now, today, memoryVars, turnVars, sessionVars, main_pc, conn>>

NextService ==
    \/ \E s \in ServiceIds, kind \in ServiceKinds, given \in GivenCaches :
           NewService(s, kind, given)
    \/ \E s \in DOMAIN services, trip \in ServiceTrips, force \in BOOLEAN :
           \E resp \in ServiceResponses(services[s].kind) : ServiceSearch(s, trip, force, resp)

SpecService == Init /\ [][NextService]_vars

\* C37 as claimed: a dict passed to the constructor is the cache the service
\* uses, also an empty one: an entry the service writes after a successful
\* search is in the dict the caller gave, and an entry of that dict is served
\* on a lookup that is not forced.
C37_GivenMappingIsTheCache ==
    \A s \in DOMAIN services :
        services[s].given # NoRef =>
            LET self == services[s]
                key == ServiceKey(self.kind, self.last.trip)
            IN  /\ self.last.stored =>
                       /\ key \in DOMAIN mappings[self.given]
                       /\ mappings[self.given][key].results = self.last.results
                /\ self.searches > 0 /\ ~self.last.force /\ key \in DOMAIN self.last.given_before =>
                       /\ ~self.last.called
                       /\ self.last.results = self.last.given_before[key].results

(***************************************************************************)
(* main and the websocket server: start_ws_server and handle_client        *)
(***************************************************************************)
\* the texts a client sends: no JSON, a JSON object without "message", or a
\* JSON object whose "message" is a prompt
WsMessages == {"not json", "{}"} \cup Prompts

\* "server = await websockets.serve(...)": the server listens, or the call
\* raises and the exception leaves main; then "await asyncio.Future()", a future
\* nobody resolves
Serve(listening) ==
    /\ main_pc = "start_ws_server"
    /\ main_pc' = IF listening THEN "forever" ELSE "raised"
    /\ UNCHANGED <<memory, now, today, memoryVars, turnVars, sessionVars, mappings, services,
                   conn>>

\* a client connects: handle_client starts its loop over the messages
Connect ==
    /\ main_pc = "forever"
    /\ pc = "idle"
    /\ conn.state \in {"none", "closed"}
    /\ conn' = [conn EXCEPT !.state = "waiting"]
    /\ UNCHANGED <<memory, now, today, memoryVars, turnVars, sessionVars, mappings, services,
                   main_pc>>

\* mutant: handle_client answering every message with the instance at hand
ReceiveKeepingAgent(message) ==
    /\ main_pc = "forever"
    /\ pc = "idle"
    /\ conn.state = "waiting"
    /\ conn.received < MaxTurns + 1
    /\ IF message \in Prompts
       THEN /\ turns < MaxTurns
            /\ conn' = [conn EXCEPT !.state = "received", !.message = message,
                                    !.turn = turns, !.received = @ + 1]
       ELSE /\ conn' = [conn EXCEPT !.message = message, !.received = @ + 1,
                                    !.errors = @ + 1, !.sent = "error"]
    /\ UNCHANGED <<memory, now, today, memoryVars, turnVars, sessionVars, mappings, services,
                   main_pc>>

\* one pass of "async for message in websocket" up to the call of plan_trip:
\* json.loads(message) or data['message'] raises and the except clause sends
\* the error, or "agent = TripMateAgent()" constructs the instance (the local
\* variable agent is instance 2) whose plan_trip is called next
Receive(message) ==
    /\ main_pc = "forever"
    /\ pc = "idle"
    /\ conn.state = "waiting"
    /\ conn.received < MaxTurns + 1
    /\ IF message \in Prompts
       THEN /\ turns < MaxTurns
            /\ LET self == agents[current]
                   written == [heap EXCEPT ![self.memory] = memory, ![self.cache] = cache]
                   kept == [agents EXCEPT
                               ![current].is_first_interaction = is_first_interaction,
                               ![current].left = Snapshot]
                   agent == init(FreshRef(written, kept))
                   ags == [a \in DOMAIN kept \cup {2} |-> IF a = 2 THEN agent ELSE kept[a]]
                   h == Collect(Construct(written, agent), ags)
               IN  /\ agents' = ags
                   /\ heap' = h
                   /\ current' = 2
                   /\ memory' = h[agent.memory]
                   /\ cache' = h[agent.cache]
                   /\ is_first_interaction' = agent.is_first_interaction
            /\ refresh_log' = NoRefresh
            /\ conn' = [conn EXCEPT !.state = "received", !.message = message,
                                    !.turn = turns, !.received = @ + 1]
       ELSE /\ conn' = [conn EXCEPT !.message = message, !.received = @ + 1,
                                    !.errors = @ + 1, !.sent = "error"]
            /\ UNCHANGED <<memory, cache, is_first_interaction, refresh_log, sessionVars>>
    /\ UNCHANGED <<now, today, memoryVars, pc, turns, user_prompt, previous_memory,
                   force_refresh, dates_changed, locations_changed, search_results,
                   search_log, reply, turn_log, mappings, services, main_pc>>

\* "result = agent.plan_trip(data['message'])" begins
WsTurn(llm) ==
    /\ conn.state = "received"
    /\ conn.turn = turns
    /\ BeginTurnWithin(MaxTurns, conn.message, llm)

\* plan_trip has returned: "await websocket.send(json.dumps({"message": result}))"
Send ==
    /\ conn.state = "received"
    /\ conn.turn < turns
    /\ pc = "idle"
    /\ conn' = [conn EXCEPT !.state = "waiting", !.sent = "message", !.handled = memory]
    /\ UNCHANGED <<memory, now, today, memoryVars, turnVars, sessionVars, mappings, services,
                   main_pc>>

\* the client closes the connection: the loop ends, or, when plan_trip has
\* returned, websocket.send raises in the try and in the except clause and the
\* exception leaves handle_client
Disconnect ==
    /\ pc = "idle"
    /\ \/ conn.state = "waiting"
       \/ conn.state = "received" /\ conn.turn < turns
    /\ conn' = [conn EXCEPT !.state = "closed", !.sent = "none"]
    /\ UNCHANGED <<memory, now, today, memoryVars, turnVars, sessionVars, mappings, services,
                   main_pc>>

NextMain ==
    \/ \E listening \in BOOLEAN : Serve(listening)
    \/ Connect
    \/ \E message \in WsMessages : Receive(message)
    \/ \E llm \in SessionOutcomes : WsTurn(llm)
    \/ TurnStep
    \/ Send
    \/ Disconnect

SpecMain == Init /\ [][NextMain]_vars

\* main goes on whenever it can, and so do the handler and the turn it runs
SpecMainLive == SpecMain /\ WF_vars(NextMain)

\* C38 as claimed: once main has started the websocket server it eventually
\* enters the command-line loop run_cli.
C38_MainReachesCli == (main_pc = "forever") ~> (main_pc = "run_cli")

\* the step receives a text that is no JSON object with a "message"
ReceivesBadMessage ==
    /\ conn'.received = conn.received + 1
    /\ conn'.message \notin Prompts

\* C39: every message of the websocket is answered by a new instance.  The
\* turn of a message starts with the initial memory, an empty cache and the
\* first-turn flag set; what it merges is merged into the initial memory, so no
\* fact of an earlier message is in it, and its searches take the search path
\* and call the provider; a message whose handling raises is answered with an
\* error and the loop waits for the next message.
C39_EveryMessageNewInstance ==
    /\ [][turns' = turns + 1 =>
              /\ conn.state = "received"
              /\ memory = InitialMemory
              /\ cache = EmptyCache
              /\ is_first_interaction]_vars
    /\ [](conn.state = "received" /\ conn.turn < turns =>
              /\ turn_log.start = InitialMemory
              /\ turn_log.llm.kind = "json" =>
                     turn_log.merged = update_memory(InitialMemory, turn_log.llm.value))
    /\ [](Searched =>
              /\ is_first_interaction
              /\ \A t \in SearchTypes :
                     Processed(t) => search_log[t].path = "search" /\ search_log[t].called)
    /\ [][ReceivesBadMessage =>
              /\ conn.state = "waiting"
              /\ conn'.state = "waiting"
              /\ conn'.sent = "error"
              /\ UNCHANGED <<memory, cache, agents>>]_vars

\* C39 witness: the connection has answered a text that is no JSON with an
\* error and a message about Goa with a reply; the second turn, about Bali,
\* started with the initial memory and calls the provider.
C39_Witness ==
    /\ Searched
    /\ turns = 2
    /\ conn.state = "received"
    /\ conn.errors >= 1
    /\ conn.handled["destination"] = Str("Goa")
    /\ turn_log.start = InitialMemory
    /\ memory["destination"] = Str("Bali")
    /\ is_first_interaction
    /\ search_log["hotels"].called

(***************************************************************************)
(* The modular helpers: utils.py and TravelInfoExtractor next to the       *)
(* methods of TripMateAgent                                                *)
(***************************************************************************)
\* TravelInfoExtractor.update_memory(memory, new_info)
extractor_update_memory(mem, info) ==
    LET written(key) == /\ key \in DOMAIN info
                        /\ info[key] # None
                        /\ (Get(mem, key) = None \/ info[key] # Get(mem, key))
        m1 == [key \in DOMAIN mem \cup {k \in DOMAIN info : written(k)} |->
                  IF written(key) THEN info[key] ELSE mem[key]]
        m2 == IF Truthy(Get(info, "transit_cities")) /\ IsList(info["transit_cities"])
              THEN [m1 EXCEPT !["transit_cities"] =
                       List(AppendMissing(m1["transit_cities"].list, info["transit_cities"].list))]
              ELSE m1
    IN  IF Truthy(Get(info, "transportation")) /\ IsList(info["transportation"])
        THEN [m2 EXCEPT !["transportation"] =
                 List(AppendMissing(m2["transportation"].list, info["transportation"].list))]
        ELSE m2

\* utils.make_reasonable_assumptions(memory), with datetime.now() the day
utils_make_reasonable_assumptions(mem, day) ==
    LET m1 == IF Truthy(mem["destination"]) /\ ~Truthy(mem["check_in_date"])
              THEN [mem EXCEPT !["check_in_date"] = Str(strftime(day + 14))]
              ELSE mem
        fills == Truthy(m1["check_in_date"]) /\ ~Truthy(m1["check_out_date"])
    IN  IF fills /\ ~Parses(m1["check_in_date"])
        THEN [raised |-> TRUE, memory |-> m1]
        ELSE LET m2 == IF fills
                       THEN [m1 EXCEPT !["check_out_date"] =
                                Str(strftime(strptime(m1["check_in_date"]) + 7))]
                       ELSE m1
                 m3 == IF Truthy(m2["destination"]) /\ ~Truthy(m2["hotel_preference"])
                       THEN [m2 EXCEPT !["hotel_preference"] = Str("3-star")]
                       ELSE m2
             IN  [raised |-> FALSE,
                  memory |-> IF /\ Truthy(m3["origin"])
                                /\ Truthy(m3["destination"])
                                /\ ~Truthy(m3["transportation"])
                             THEN [m3 EXCEPT !["transportation"] = List(<<"flight">>)]
                             ELSE m3]

\* the methods of the agent called on the patches of a turn and on the cities
NextHelpers ==
    \/ \E info \in TurnPatches : Merge(info)
    \/ Assume
    \/ Tick
    \/ \E city \in CityInputs : AskAirport(city)

SpecHelpers == Init /\ [][NextHelpers]_vars

\* C40 as claimed: the helpers give what the methods of the agent give:
\* utils.get_airport_code the code get_airport_code gave for the city,
\* TravelInfoExtractor.update_memory the memory _update_memory left, and
\* utils.make_reasonable_assumptions the memory _make_reasonable_assumptions
\* left (or both raise, leaving the same memory).
C40_HelpersAgree ==
    /\ asked.fn = "get_airport_code" => utils_get_airport_code(asked.arg) = asked.result
    /\ step = "merged" => extractor_update_memory(before, new_info) = memory
    /\ step \in {"assumed", "assumed_again", "assume_raised"} =>
           /\ utils_make_reasonable_assumptions(before, today).memory = memory
           /\ utils_make_reasonable_assumptions(before, today).raised = (step = "assume_raised")

\* the helpers of the memory agree with the methods
C40_MemoryHelpersAgree ==
    /\ step = "merged" => extractor_update_memory(before, new_info) = memory
    /\ step \in {"assumed", "assumed_again", "assume_raised"} =>
           /\ utils_make_reasonable_assumptions(before, today).memory = memory
           /\ utils_make_reasonable_assumptions(before, today).raised = (step = "assume_raised")

====
